---- MODULE Spec2Model ----
(***************************************************************************)
(* A model of the npmjs MCP server: the CallTool handler with its six      *)
(* tools, the registry client (fetchPackageData), the download aggregator  *)
(* (fetchPackageDownloads / fetchSinglePeriodDownloads) and the local      *)
(* audit runner (npm_audit, simulate_npm_audit_fix).                       *)
(*                                                                         *)
(* Strings whose characters matter are sequences of one-character strings: *)
(* package names (percent-encoding), and the captured standard output of   *)
(* the external commands, which is a sequence of runs [c, n] (n copies of  *)
(* character class c) so that outputs longer than the 500-character        *)
(* fragment stay small.  JavaScript objects whose key order is observable  *)
(* are sequences of key/value records.                                     *)
(***************************************************************************)
EXTENDS Integers, Sequences, FiniteSets, TLC

(***************************************************************************)
(* Bounds of the model.                                                    *)
(***************************************************************************)
MaxNameLen == 2
MaxOut == 4
MaxActions == 2
MaxVulns == 2
MaxKeyLen == 6
MaxUrlSegs == 3

(***************************************************************************)
(* Program constants.                                                      *)
(***************************************************************************)
FragmentLen == 500

NPM_REGISTRY_BASE_URL == "https://registry.npmjs.org"
NPM_DOWNLOADS_API_BASE_URL == "https://api.npmjs.org/downloads/point"

Periods == <<"last-day", "last-week", "last-month">>
PeriodSet == {Periods[k] : k \in 1..Len(Periods)}

RegistryTools ==
  {"get_npm_package_summary", "get_npm_package_versions", "get_npm_package_details"}
AuditTools == {"npm_audit", "simulate_npm_audit_fix"}
ListedTools == RegistryTools \cup {"get_npm_package_downloads"} \cup AuditTools

(***************************************************************************)
(* Generic helpers.                                                        *)
(***************************************************************************)
SeqsUpTo(S, n) == UNION {[1..k -> S] : k \in 0..n}

RECURSIVE Flatten(_)
Flatten(ss) == IF ss = <<>> THEN <<>> ELSE Head(ss) \o Flatten(Tail(ss))

Has(obj, key) == key \in DOMAIN obj

(***************************************************************************)
(* encodeURIComponent / decodeURIComponent over the characters of package  *)
(* names.  "x" is an unreserved character, "@", "/" and "%" are escaped    *)
(* as %40, %2F and %25, and "hs" is a lone high surrogate, on which        *)
(* encodeURIComponent throws URIError.                                     *)
(***************************************************************************)
NameChars == {"x", "@", "/", "%", "hs"}
HexDigits == {"0", "2", "4", "5", "F"}

EncodeChar(c) ==
  CASE c = "@" -> <<"%", "4", "0">>
    [] c = "/" -> <<"%", "2", "F">>
    [] c = "%" -> <<"%", "2", "5">>
    [] OTHER   -> <<c>>

encodeURIComponent(s) ==
  IF \E k \in 1..Len(s) : s[k] = "hs"
  THEN [ok |-> FALSE, val |-> <<>>]
  ELSE [ok |-> TRUE, val |-> Flatten([k \in 1..Len(s) |-> EncodeChar(s[k])])]

\* encodePackageName that passes the name on as it is.
encodePackageNameRaw(packageName) ==
  IF \E k \in 1..Len(packageName) : packageName[k] = "hs"
  THEN [ok |-> FALSE, val |-> <<>>]
  ELSE [ok |-> TRUE, val |-> packageName]
encodePackageName(packageName) == encodeURIComponent(packageName)

\* The character a %XY escape stands for; "?" is any other ASCII character.
DecodeEscape(h1, h2) ==
  CASE h1 = "4" /\ h2 = "0" -> "@"
    [] h1 = "2" /\ h2 = "F" -> "/"
    [] h1 = "2" /\ h2 = "5" -> "%"
    [] OTHER -> "?"

RECURSIVE decodeURIComponent(_)
decodeURIComponent(s) ==
  IF s = <<>> THEN [ok |-> TRUE, val |-> <<>>]
  ELSE IF Head(s) # "%"
  THEN LET rest == decodeURIComponent(Tail(s))
       IN  [ok |-> rest.ok, val |-> IF rest.ok THEN <<Head(s)>> \o rest.val ELSE <<>>]
  ELSE IF Len(s) < 3 \/ s[2] \notin HexDigits \/ s[3] \notin HexDigits \/ s[2] = "F"
  THEN [ok |-> FALSE, val |-> <<>>]   \* malformed escape or byte: URIError
  ELSE LET rest == decodeURIComponent(SubSeq(s, 4, Len(s)))
       IN  [ok |-> rest.ok,
            val |-> IF rest.ok THEN <<DecodeEscape(s[2], s[3])>> \o rest.val ELSE <<>>]

(***************************************************************************)
(* Errors.  An error is a record: its class, the template of its message   *)
(* and the values the template interpolates.  status is <<>> when the      *)
(* error carries no status code; raws lists the pieces of raw command      *)
(* output that the message embeds, in order.                               *)
(***************************************************************************)
MkError(name, tmpl) ==
  [name |-> name, tmpl |-> tmpl, code |-> "", status |-> <<>>, tool |-> "",
   pkg |-> <<>>, path |-> "", inner |-> "", raws |-> <<>>]

URIError == MkError("URIError", "URI malformed")

NpmApiError(message, statusCode, code) ==
  [message EXCEPT !.name = "NpmApiError", !.status = statusCode, !.code = code]

NotFoundMsg == "Package '${decodeURIComponent(encodedPackageName)}' not found on npmjs."
ApiErrorMsg == "Failed to fetch package data from NPM Registry. Status: ${status}"
NoResponseMsg == "No response received from NPM Registry while fetching package data."
SetupErrorMsg == "Error fetching package data: ${message}"

(***************************************************************************)
(* Zod schemas.  An argument object is a record whose domain is the set of *)
(* keys it has.  z.object strips unknown keys from the parsed data, and    *)
(* z.union returns the result of the first option that parses.             *)
(***************************************************************************)
ParseFailure == [success |-> FALSE]

PackageNameArgsSchema(args) ==
  IF Has(args, "packageName") /\ Len(args.packageName) >= 1
  THEN [success |-> TRUE, data |-> [packageName |-> args.packageName]]
  ELSE ParseFailure

PackageDownloadsArgsSchema(args) ==
  IF /\ Has(args, "packageName") /\ Len(args.packageName) >= 1
     /\ Has(args, "period") => args.period \in PeriodSet
  THEN [success |-> TRUE,
        data |-> IF Has(args, "period")
                 THEN [packageName |-> args.packageName, period |-> args.period]
                 ELSE [packageName |-> args.packageName]]
  ELSE ParseFailure

NpmAuditArgsSchema(args) ==
  IF Has(args, "projectPath") /\ args.projectPath # ""
  THEN [success |-> TRUE, data |-> [projectPath |-> args.projectPath]]
  ELSE ParseFailure

SimulateNpmAuditFixArgsSchema(args) ==
  IF Has(args, "projectPath") /\ args.projectPath # ""
  THEN [success |-> TRUE, data |-> [projectPath |-> args.projectPath]]
  ELSE ParseFailure

AnyToolArgsSchema(args) ==
  IF PackageNameArgsSchema(args).success
  THEN PackageNameArgsSchema(args)
  ELSE PackageDownloadsArgsSchema(args)

handleZodError(toolName) ==
  [MkError("Error", "Invalid arguments for tool ${toolName}. Details: ${errorDetails}")
     EXCEPT !.tool = toolName]

(***************************************************************************)
(* The registry client.  The outcome of an HTTP GET is what axios reports: *)
(* a 2xx response with its body, an error with a response (its status),   *)
(* an error with a request but no response, or an error with neither.      *)
(***************************************************************************)
ErrorStatuses == {404, 500}

FailureOutcomes ==
  {[k |-> "response", status |-> st] : st \in ErrorStatuses}
    \cup {[k |-> "request"], [k |-> "setup"]}

\* fetchPackageData without the 404 branch.
fetchPackageDataNo404(encodedPackageName, outcome) ==
  IF outcome.k = "ok" THEN [ok |-> TRUE, data |-> outcome.data]
  ELSE IF outcome.k = "response"
  THEN [ok |-> FALSE,
        error |-> NpmApiError(MkError("Error", ApiErrorMsg),
                              <<outcome.status>>, "NPM_API_ERROR")]
  ELSE IF outcome.k = "request"
  THEN [ok |-> FALSE,
        error |-> NpmApiError(MkError("Error", NoResponseMsg), <<>>, "NPM_API_NO_RESPONSE")]
  ELSE [ok |-> FALSE,
        error |-> NpmApiError(MkError("Error", SetupErrorMsg), <<>>,
                              "NPM_API_REQUEST_SETUP_ERROR")]

\* fetchPackageData with the encoded name in the not-found message.
fetchPackageDataEncodedName(encodedPackageName, outcome) ==
  IF outcome.k = "ok" THEN [ok |-> TRUE, data |-> outcome.data]
  ELSE IF outcome.k = "response"
  THEN IF outcome.status = 404
       THEN [ok |-> FALSE,
             error |-> NpmApiError(
               [MkError("Error", NotFoundMsg) EXCEPT !.pkg = encodedPackageName],
               <<404>>, "NPM_PKG_NOT_FOUND")]
       ELSE [ok |-> FALSE,
             error |-> NpmApiError(MkError("Error", ApiErrorMsg),
                                   <<outcome.status>>, "NPM_API_ERROR")]
  ELSE IF outcome.k = "request"
  THEN [ok |-> FALSE,
        error |-> NpmApiError(MkError("Error", NoResponseMsg), <<>>, "NPM_API_NO_RESPONSE")]
  ELSE [ok |-> FALSE,
        error |-> NpmApiError(MkError("Error", SetupErrorMsg), <<>>,
                              "NPM_API_REQUEST_SETUP_ERROR")]

\* What fetchPackageData does with the outcome of its GET: the record it
\* returns, or the error it throws.
fetchPackageData(encodedPackageName, outcome) ==
  IF outcome.k = "ok" THEN [ok |-> TRUE, data |-> outcome.data]
  ELSE IF outcome.k = "response"
  THEN IF outcome.status = 404
       THEN IF decodeURIComponent(encodedPackageName).ok
            THEN [ok |-> FALSE,
                  error |-> NpmApiError(
                    [MkError("Error", NotFoundMsg)
                       EXCEPT !.pkg = decodeURIComponent(encodedPackageName).val],
                    <<404>>, "NPM_PKG_NOT_FOUND")]
            ELSE [ok |-> FALSE, error |-> URIError]
       ELSE [ok |-> FALSE,
             error |-> NpmApiError(MkError("Error", ApiErrorMsg),
                                   <<outcome.status>>, "NPM_API_ERROR")]
  ELSE IF outcome.k = "request"
  THEN [ok |-> FALSE,
        error |-> NpmApiError(MkError("Error", NoResponseMsg), <<>>, "NPM_API_NO_RESPONSE")]
  ELSE [ok |-> FALSE,
        error |-> NpmApiError(MkError("Error", SetupErrorMsg), <<>>,
                              "NPM_API_REQUEST_SETUP_ERROR")]

(***************************************************************************)
(* The response normalizer.  A registry record is a record whose domain is *)
(* the set of fields it has; version strings and URLs are sequences of     *)
(* characters; the time mapping is the sequence of its entries in source   *)
(* order.                                                                  *)
(***************************************************************************)
With(obj, key, present, val) == IF present THEN (key :> val) @@ obj ELSE obj

Digits == {"0", "1", "2", "3", "4", "5", "6", "7", "8", "9"}

RECURSIVE DigitRun(_)
DigitRun(s) == IF s # <<>> /\ Head(s) \in Digits THEN 1 + DigitRun(Tail(s)) ELSE 0

Drop(s, n) == SubSeq(s, n + 1, Len(s))

\* The pattern without its end: /^\d+\.\d+\.\d+/.test(key)
IsVersionKeyUnanchored(key) ==
  LET d1 == DigitRun(key)
      r1 == Drop(key, d1)
      d2 == IF r1 # <<>> /\ Head(r1) = "." THEN DigitRun(Tail(r1)) ELSE 0
      r2 == IF d2 > 0 THEN Drop(Tail(r1), d2) ELSE <<>>
      d3 == IF r2 # <<>> /\ Head(r2) = "." THEN DigitRun(Tail(r2)) ELSE 0
  IN  d1 > 0 /\ d2 > 0 /\ d3 > 0
\* /^\d+\.\d+\.\d+([-.].*)?$/.test(key)
IsVersionKey(key) ==
  LET d1 == DigitRun(key)
      r1 == Drop(key, d1)
      d2 == IF r1 # <<>> /\ Head(r1) = "." THEN DigitRun(Tail(r1)) ELSE 0
      r2 == IF d2 > 0 THEN Drop(Tail(r1), d2) ELSE <<>>
      d3 == IF r2 # <<>> /\ Head(r2) = "." THEN DigitRun(Tail(r2)) ELSE 0
      r3 == IF d3 > 0 THEN Drop(Tail(r2), d3) ELSE <<>>
  IN  /\ d1 > 0 /\ d2 > 0 /\ d3 > 0
      /\ \/ r3 = <<>>
         \/ /\ Head(r3) \in {"-", "."}
            /\ \A k \in 1..Len(r3) : r3[k] # "\n"

\* rawData.time[key]: the value of the last entry with that key.
TimeHas(time, key) == \E k \in 1..Len(time) : time[k].k = key
\* A lookup that takes the first entry of the mapping whatever its key.
TimeAtFirst(time, key) == time[1].v
TimeAt(time, key) ==
  time[CHOOSE k \in 1..Len(time) :
         time[k].k = key /\ \A j \in (k + 1)..Len(time) : time[j].k # key].v

StripPrefix(s, pre) ==
  IF Len(s) >= Len(pre) /\ SubSeq(s, 1, Len(pre)) = pre THEN Drop(s, Len(pre)) ELSE s
StripSuffix(s, suf) ==
  IF Len(s) >= Len(suf) /\ SubSeq(s, Len(s) - Len(suf) + 1, Len(s)) = suf
  THEN SubSeq(s, 1, Len(s) - Len(suf)) ELSE s

GitPlus == <<"g", "i", "t", "+">>
DotGit == <<".", "g", "i", "t">>

\* A license taken from a string only.
licenseStringOfStrings(rawData) ==
  IF Has(rawData, "license") /\ rawData.license.t = "string"
  THEN <<rawData.license.v>> ELSE <<>>
\* licenseString: <<>> when it stays undefined.
licenseString(rawData) ==
  IF Has(rawData, "license") /\ rawData.license.t = "string"
  THEN <<rawData.license.v>>
  ELSE IF /\ Has(rawData, "license") /\ rawData.license.t = "object"
          /\ Has(rawData.license, "type") /\ rawData.license.type # ""
  THEN <<rawData.license.type>>
  ELSE <<>>

\* A URL from which only the prefix is removed.
repositoryUrlPrefixOnly(rawData) ==
  IF /\ Has(rawData, "repository") /\ Has(rawData.repository, "url")
     /\ rawData.repository.url # <<>>
  THEN <<StripPrefix(rawData.repository.url, GitPlus)>>
  ELSE <<>>
\* repositoryUrl: <<>> when it stays undefined.
repositoryUrl(rawData) ==
  IF /\ Has(rawData, "repository") /\ Has(rawData.repository, "url")
     /\ rawData.repository.url # <<>>
  THEN <<StripSuffix(StripPrefix(rawData.repository.url, GitPlus), DotGit)>>
  ELSE <<>>

transformDataForSummary(rawData, sourceUrl) ==
  LET hasLatest == /\ Has(rawData, "distTags") /\ Has(rawData.distTags, "latest")
                   /\ rawData.distTags.latest # <<>>
      hasDate == /\ hasLatest /\ Has(rawData, "time")
                 /\ TimeHas(rawData.time, rawData.distTags.latest)
                 /\ TimeAt(rawData.time, rawData.distTags.latest) # ""
      o1 == [name |-> rawData.name,
             latestVersion |-> IF hasLatest THEN rawData.distTags.latest
                               ELSE <<"N", "/", "A">>,
             source |-> sourceUrl]
      o2 == With(o1, "description", Has(rawData, "description"),
                 IF Has(rawData, "description") THEN rawData.description ELSE "")
      o3 == With(o2, "publishDateLatest", hasDate,
                 IF hasDate THEN TimeAt(rawData.time, rawData.distTags.latest) ELSE "")
      o4 == With(o3, "license", licenseString(rawData) # <<>>,
                 IF licenseString(rawData) # <<>> THEN licenseString(rawData)[1] ELSE "")
      o5 == With(o4, "homepage", Has(rawData, "homepage"),
                 IF Has(rawData, "homepage") THEN rawData.homepage ELSE "")
  IN  With(o5, "repository", repositoryUrl(rawData) # <<>>,
           IF repositoryUrl(rawData) # <<>> THEN repositoryUrl(rawData)[1] ELSE <<>>)

SummaryKeys == <<"name", "latestVersion", "description", "publishDateLatest",
                 "license", "homepage", "repository", "source">>

\* Assigning versionsMap[key] again keeps the key's first position and takes
\* the later value; the source mapping has each key once.
transformDataForVersions(rawData, sourceUrl) ==
  [versions |-> IF Has(rawData, "time")
                THEN SelectSeq(rawData.time, LAMBDA e : IsVersionKey(e.k))
                ELSE <<>>,
   source |-> sourceUrl]

VersionsKeys == <<"versions", "source">>

\* rawData.maintainers.map without the optional chaining.
MapMaintainersThrowsUnchained(rawData) ==
  \/ ~Has(rawData, "maintainers")
  \/ \E k \in 1..Len(rawData.maintainers) : rawData.maintainers[k] = [t |-> "null"]
\* rawData.maintainers?.map(m => ({ name: m.name, email: m.email })) throws a
\* TypeError when an element of the list is null.
MapMaintainersThrows(rawData) ==
  /\ Has(rawData, "maintainers")
  /\ \E k \in 1..Len(rawData.maintainers) : rawData.maintainers[k] = [t |-> "null"]

\* Details that keep a list the source has even when the list is empty.
transformDataForDetailsEmptyLists(rawData, sourceUrl) ==
  LET summaryData == transformDataForSummary(rawData, sourceUrl)
      maintainers == IF Has(rawData, "maintainers")
                     THEN [k \in 1..Len(rawData.maintainers) |->
                             [name |-> rawData.maintainers[k].name,
                              email |-> rawData.maintainers[k].email]]
                     ELSE <<>>
      keywords == IF Has(rawData, "keywords") THEN rawData.keywords ELSE <<>>
  IN  With(With(summaryData, "maintainers", Has(rawData, "maintainers"), maintainers),
           "keywords", Has(rawData, "keywords"), keywords)
\* The value transformDataForDetails returns when the map does not throw.
transformDataForDetails(rawData, sourceUrl) ==
  LET summaryData == transformDataForSummary(rawData, sourceUrl)
      maintainers == IF Has(rawData, "maintainers")
                     THEN [k \in 1..Len(rawData.maintainers) |->
                             [name |-> rawData.maintainers[k].name,
                              email |-> rawData.maintainers[k].email]]
                     ELSE <<>>
      keywords == IF Has(rawData, "keywords") THEN rawData.keywords ELSE <<>>
  IN  With(With(summaryData, "maintainers", Len(maintainers) > 0, maintainers),
           "keywords", Len(keywords) > 0, keywords)

DetailsKeys == SummaryKeys \o <<"maintainers", "keywords">>

\* JSON.stringify of an object: its defined properties in insertion order.
Stringify(obj, keys) ==
  LET present == SelectSeq(keys, LAMBDA k : Has(obj, k))
  IN  [j \in 1..Len(present) |-> [k |-> present[j], v |-> obj[present[j]]]]

\* The registry records the model's upstream can answer with.
PackageRecords ==
  { [name |-> "express",
     distTags |-> [latest |-> <<"1", ".", "1", ".", "2">>],
     description |-> "web framework",
     time |-> << [k |-> <<"c">>, v |-> "t0"],
                 [k |-> <<"1", ".", "1", ".", "2">>, v |-> "t1"],
                 [k |-> <<"2", ".", "1", ".", "1", "-", "c">>, v |-> "t2"] >>,
     license |-> [t |-> "string", v |-> "MIT"],
     homepage |-> "http://expressjs.com/",
     repository |-> [type |-> "git", url |-> GitPlus \o <<"h">> \o DotGit],
     maintainers |-> << [name |-> "doug", email |-> "doug@example.com", url |-> "u"] >>,
     keywords |-> <<"web", "rest">>],
    [name |-> "bare", distTags |-> [other |-> <<"1">>]],
    [name |-> "odd",
     distTags |-> [latest |-> <<"2", ".", "1", ".", "1">>],
     time |-> << [k |-> <<"1", ".", "1">>, v |-> "t3"] >>,
     license |-> [t |-> "object", type |-> "ISC"],
     repository |-> [type |-> "git", url |-> <<"h">>],
     maintainers |-> <<>>,
     keywords |-> <<>>],
    [name |-> "broken",
     distTags |-> [latest |-> <<"1", ".", "1", ".", "2">>],
     maintainers |-> << [t |-> "null"] >>] }

(***************************************************************************)
(* The download aggregator.  A JavaScript value is a tagged record.        *)
(***************************************************************************)
JSNumber(n) == [t |-> "number", n |-> n]
JSNull == [t |-> "null"]
JSUndefined == [t |-> "undefined"]

DownloadCounts == {0, 7}

\* The outcomes of one GET of the downloads endpoint: a body with a count,
\* a body whose downloads field is null or missing, or a failure.
DownloadOutcomes ==
  {[k |-> "ok", downloads |-> v] :
     v \in {JSNumber(n) : n \in DownloadCounts} \cup {JSNull, JSUndefined}}
    \cup FailureOutcomes

\* fetchSinglePeriodDownloads returning response.data.downloads || null.
fetchSinglePeriodDownloadsOrNull(period, encodedPackageName, outcome) ==
  IF outcome.k = "ok"
  THEN [status |-> "fulfilled",
        value |-> [period |-> period,
                   downloads |-> IF outcome.downloads.t = "number" /\ outcome.downloads.n # 0
                                 THEN outcome.downloads ELSE JSNull]]
  ELSE IF decodeURIComponent(encodedPackageName).ok
  THEN [status |-> "fulfilled", value |-> [period |-> period, downloads |-> JSNull]]
  ELSE [status |-> "rejected"]
\* How the promise of fetchSinglePeriodDownloads settles for an outcome of
\* its GET: the catch block logs the decoded name and yields null.
fetchSinglePeriodDownloads(period, encodedPackageName, outcome) ==
  IF outcome.k = "ok"
  THEN [status |-> "fulfilled", value |-> [period |-> period, downloads |-> outcome.downloads]]
  ELSE IF decodeURIComponent(encodedPackageName).ok
  THEN [status |-> "fulfilled", value |-> [period |-> period, downloads |-> JSNull]]
  ELSE [status |-> "rejected"]

\* periodsToFetch with the named period listed a second time.
PeriodsToFetchRepeated(requestedPeriod) ==
  IF requestedPeriod # <<>> THEN requestedPeriod \o requestedPeriod ELSE Periods
\* requestedPeriod is <<>> when no period is named, <<p>> otherwise.
PeriodsToFetch(requestedPeriod) ==
  IF requestedPeriod # <<>> THEN requestedPeriod ELSE Periods

Range(s) == {s[k] : k \in 1..Len(s)}

\* Promise.allSettled: every started fetch has settled (AnySettled is the
\* condition of a race, which resumes on the first one).
AnySettled(fs, ps) == \E p \in Range(ps) : fs[p].st = "settled"
AllSettled(fs, ps) == \A p \in Range(ps) : fs[p].st = "settled"

\* downloadResults[p] after results.forEach: set for fulfilled results only.
DownloadResultSet(fs, p) == fs[p].st = "settled" /\ fs[p].result.status = "fulfilled"

\* A truthiness test in place of the comparisons with null and undefined.
IsCountTruthy(fs, p) ==
  /\ DownloadResultSet(fs, p)
  /\ fs[p].result.value.downloads.t = "number"
  /\ fs[p].result.value.downloads.n # 0
\* downloadResults[p] !== null && downloadResults[p] !== undefined
IsCount(fs, p) ==
  /\ DownloadResultSet(fs, p)
  /\ fs[p].result.value.downloads.t # "null"
  /\ fs[p].result.value.downloads.t # "undefined"

\* The keys of finalDownloads inserted from last-month down to last-day.
KeyOrderReversed(requestedPeriod) ==
  IF requestedPeriod # <<>> THEN requestedPeriod
  ELSE [k \in 1..Len(Periods) |-> Periods[Len(Periods) + 1 - k]]

\* The order in which the code inserts the keys of finalDownloads.
KeyOrder(requestedPeriod) ==
  IF requestedPeriod # <<>> THEN requestedPeriod ELSE Periods

\* finalDownloads with its keys inserted as the fetches arrived.
finalDownloadsInArrivalOrder(fs, requestedPeriod) ==
  LET settled == {p \in PeriodSet : fs[p].st = "settled"}
      arrival == [j \in 1..Cardinality(settled) |->
                    CHOOSE p \in settled : fs[p].at = j]
      kept == SelectSeq(arrival, LAMBDA p : IsCount(fs, p))
  IN  [j \in 1..Len(kept) |->
         [k |-> kept[j], v |-> fs[kept[j]].result.value.downloads.n]]

\* The downloads object of the result: the counts that are numbers, its keys
\* inserted in the order of the code, whatever the order of arrival.
finalDownloads(fs, requestedPeriod) ==
  LET kept == SelectSeq(KeyOrder(requestedPeriod), LAMBDA p : IsCount(fs, p))
  IN  [j \in 1..Len(kept) |->
         [k |-> kept[j], v |-> fs[kept[j]].result.value.downloads.n]]

\* The value fetchPackageDownloads returns once every fetch has settled, or
\* the URIError of its final decodeURIComponent.
fetchPackageDownloads(encodedPackageName, requestedPeriod, fs) ==
  IF decodeURIComponent(encodedPackageName).ok
  THEN [ok |-> TRUE,
        data |-> [downloads |-> finalDownloads(fs, requestedPeriod),
                  package |-> decodeURIComponent(encodedPackageName).val,
                  source |-> NPM_DOWNLOADS_API_BASE_URL]]
  ELSE [ok |-> FALSE, error |-> URIError]

DownloadsKeys == <<"downloads", "package", "source">>

(***************************************************************************)
(* The local audit runner.  Captured standard output is a sequence of runs *)
(* [c, n]: n copies of a character of class c, where "{" and "}" are the   *)
(* braces, "m", "r", "f" and "n" are each the text of the members of a JSON *)
(* object, "w" is whitespace and "x" is any other text.                    *)
(***************************************************************************)
Run(c, n) == [c |-> c, n |-> n]

RECURSIVE StrLen(_)
StrLen(s) == IF s = <<>> THEN 0 ELSE Head(s).n + StrLen(Tail(s))

\* s.indexOf(c): the index of the first character of class c, or -1.
RECURSIVE indexOf(_, _)
indexOf(s, c) ==
  IF s = <<>> THEN -1
  ELSE IF Head(s).c = c THEN 0
  ELSE LET r == indexOf(Tail(s), c) IN IF r = -1 THEN -1 ELSE Head(s).n + r

\* The first n characters of s, and s without them.
RECURSIVE TakeChars(_, _)
TakeChars(s, n) ==
  IF s = <<>> \/ n <= 0 THEN <<>>
  ELSE IF Head(s).n <= n THEN <<Head(s)>> \o TakeChars(Tail(s), n - Head(s).n)
  ELSE <<Run(Head(s).c, n)>>

RECURSIVE DropChars(_, _)
DropChars(s, n) ==
  IF s = <<>> \/ n <= 0 THEN s
  ELSE IF Head(s).n <= n THEN DropChars(Tail(s), n - Head(s).n)
  ELSE <<Run(Head(s).c, Head(s).n - n)>> \o Tail(s)

\* s.substring(from) and s.substring(0, to); substringWhole keeps the start.
substringWhole(s, from) == s
substringFrom(s, from) == DropChars(s, from)
substringTo(s, to) == TakeChars(s, to)

\* The significant tokens of a text: its characters without the whitespace.
RECURSIVE Tokens(_)
Tokens(s) ==
  IF s = <<>> THEN <<>>
  ELSE IF Head(s).c = "w" THEN Tokens(Tail(s))
  ELSE [j \in 1..Head(s).n |-> Head(s).c] \o Tokens(Tail(s))

\* The values JSON.parse can give besides numbers and null.  An object is the
\* sequence of its members in source order, each key once.
JSString(s) == [t |-> "string", s |-> s]
JSBool(b) == [t |-> "boolean", b |-> b]
JSArray(elems) == [t |-> "array", elems |-> elems]
JSObject(entries) == [t |-> "object", entries |-> entries]
Member(k, v) == [k |-> k, v |-> v]

\* value.key for a value that is neither null nor undefined: the member of an
\* object, undefined for a missing member and for a primitive or an array.
HasProp(value, key) ==
  value.t = "object" /\ \E j \in 1..Len(value.entries) : value.entries[j].k = key
Prop(value, key) ==
  IF HasProp(value, key)
  THEN value.entries[CHOOSE j \in 1..Len(value.entries) : value.entries[j].k = key].v
  ELSE JSUndefined

\* Reading a property of null or undefined throws a TypeError.
Nullish(value) == value.t \in {"null", "undefined"}
TypeError == MkError("TypeError", "Cannot read properties of null")

\* value?.key
OptProp(value, key) == IF Nullish(value) THEN JSUndefined ELSE Prop(value, key)

\* The truthiness of a value, and a || b.
Truthy(value) ==
  CASE value.t \in {"null", "undefined"} -> FALSE
    [] value.t = "number" -> value.n # 0
    [] value.t = "string" -> value.s # ""
    [] value.t = "boolean" -> value.b
    [] OTHER -> TRUE
OrElse(a, b) == IF Truthy(a) THEN a ELSE b

\* The members the member tokens of the output alphabet stand for: "m" is a
\* member no normalizer reads, "r" the members of an audit report, "f" those
\* of a fix simulation and "n" an actions list with a null element.
ReportMembers ==
  << Member("auditReportVersion", JSNumber(2)),
     Member("vulnerabilities",
            JSObject(<< Member("lodash",
                               JSObject(<< Member("name", JSString("lodash")),
                                           Member("severity", JSString("high")) >>)) >>)),
     Member("metadata",
            JSObject(<< Member("vulnerabilities",
                               JSObject(<< Member("info", JSNumber(0)),
                                           Member("low", JSNumber(0)),
                                           Member("moderate", JSNumber(0)),
                                           Member("high", JSNumber(1)),
                                           Member("critical", JSNumber(0)),
                                           Member("total", JSNumber(1)) >>)) >>)) >>
FixMembers ==
  << Member("actions",
            JSArray(<< JSObject(<< Member("action", JSString("Update")),
                                   Member("module", JSString("lodash")),
                                   Member("target", JSString("4.17.21")),
                                   Member("isMajor", JSBool(FALSE)),
                                   Member("resolves",
                                          JSArray(<< JSObject(<< Member("from", JSString("4.17.20")),
                                                                 Member("path", JSString("lodash")) >>) >>)) >>) >>)),
     Member("changed", JSNumber(1)),
     Member("audited", JSNumber(7)) >>
MemberTokens == {"m", "r", "f", "n"}
Members(c) ==
  CASE c = "m" -> <<Member("lockfileVersion", JSNumber(2))>>
    [] c = "r" -> ReportMembers
    [] c = "f" -> FixMembers
    [] c = "n" -> <<Member("actions", JSArray(<<JSNull>>))>>

\* JSON.parse: the texts of this alphabet that are JSON are the objects {}
\* and { members }, with whitespace anywhere between the tokens.
JSONparse(s) ==
  LET tokens == Tokens(s)
  IN  IF \E k \in 1..Len(s) : s[k].c = "x" THEN [ok |-> FALSE]
      ELSE IF tokens = <<"{", "}">> THEN [ok |-> TRUE, value |-> JSObject(<<>>)]
      ELSE IF Len(tokens) = 3 /\ tokens[1] = "{" /\ tokens[2] \in MemberTokens /\ tokens[3] = "}"
      THEN [ok |-> TRUE, value |-> JSObject(Members(tokens[2]))]
      ELSE [ok |-> FALSE]

SyntaxErrorMsg == "Unexpected token in JSON"

\* A capture that takes every non-zero exit for an invocation failure.
CaptureStdoutStrict(result) ==
  IF result.exit = "zero" THEN [ok |-> TRUE, raw |-> result.stdout] ELSE [ok |-> FALSE]

\* What the try/catch around execSync leaves in the raw output variable: the
\* standard output of a command that exited with zero, err.stdout when it is
\* truthy, and otherwise the invocation failure.
CaptureStdout(result) ==
  IF result.exit = "zero" THEN [ok |-> TRUE, raw |-> result.stdout]
  ELSE IF Has(result, "stdout") /\ result.stdout # <<>>
  THEN [ok |-> TRUE, raw |-> result.stdout]
  ELSE [ok |-> FALSE]

AuditLockMsg ==
  "npm audit requires a package-lock.json file in the target directory '${projectPath}'. Please run 'npm install' or 'npm i --package-lock-only' in that directory first."
AuditFixLockMsg ==
  "npm audit fix requires a package-lock.json file in the target directory '${projectPath}'. Please run 'npm install' or 'npm i --package-lock-only' in that directory first."
AuditRunMsg == "Failed to run 'npm audit --json' in ${projectPath}: ${err.message || err}"
AuditParseMsg == "Failed to parse npm audit JSON output from ${projectPath}."
FixRunMsg ==
  "Failed to run 'npm audit fix --dry-run --json' in ${projectPath}: ${err.message || err}. Stderr: ${err.stderr || '(no stderr)'}"
FixNoBraceMsg ==
  "Could not find start of JSON object in npm audit fix --dry-run output from ${projectPath}. Raw output: ${simulationRaw}"
FixParseMsg ==
  "Failed to parse npm audit fix --dry-run JSON output from ${projectPath}. Error: ${(err as Error).message}. Raw output fragment: ${simulationRaw.substring(0, 500)}..."

\* A parsing block that reports a parse failure as an invocation failure.
ParseAuditOutputAsRunFailure(auditRaw, projectPath) ==
  IF JSONparse(auditRaw).ok
  THEN [ok |-> TRUE, json |-> JSONparse(auditRaw).value]
  ELSE [ok |-> FALSE,
        error |-> [MkError("Error", AuditRunMsg) EXCEPT !.path = projectPath]]

\* The parsing block of npm_audit.
ParseAuditOutput(auditRaw, projectPath) ==
  IF JSONparse(auditRaw).ok
  THEN [ok |-> TRUE, json |-> JSONparse(auditRaw).value]
  ELSE [ok |-> FALSE,
        error |-> [MkError("Error", AuditParseMsg) EXCEPT !.path = projectPath]]

\* The raw-output pieces of an error thrown inside the parsing block of
\* simulate_npm_audit_fix: the missing-brace error carries the whole output.
InnerRaws(simulationRaw, jsonStartIndex) ==
  IF jsonStartIndex = -1 THEN <<simulationRaw>> ELSE <<>>

\* The parsing block of simulate_npm_audit_fix: both the missing-brace error
\* and the JSON.parse error are thrown inside the try and replaced in its
\* catch by the parse-failure error, whose message embeds theirs.
ParseSimulationOutput(simulationRaw, projectPath) ==
  LET jsonStartIndex == indexOf(simulationRaw, "{")
      parsed == JSONparse(substringFrom(simulationRaw, jsonStartIndex))
  IN  IF jsonStartIndex # -1 /\ parsed.ok
      THEN [ok |-> TRUE, json |-> parsed.value]
      ELSE [ok |-> FALSE,
            error |-> [MkError("Error", FixParseMsg) EXCEPT
                         !.path = projectPath,
                         !.inner = IF jsonStartIndex = -1 THEN FixNoBraceMsg
                                   ELSE SyntaxErrorMsg,
                         !.raws = InnerRaws(simulationRaw, jsonStartIndex)
                                    \o <<substringTo(simulationRaw, FragmentLen)>>]]

\* String.prototype.toLowerCase on the action kinds of the model.
toLowerCase(str) ==
  CASE str = "Update" -> "update"
    [] str = "ADD" -> "add"
    [] OTHER -> str

\* Object.values(rawSeveritySummary).reduce((acc, count) => acc + (count || 0), 0)
\* for counts that are numbers or null.
RECURSIVE SumCounts(_)
SumCounts(entries) ==
  IF entries = <<>> THEN 0
  ELSE SumCounts(SubSeq(entries, 1, Len(entries) - 1))
         + (IF Truthy(entries[Len(entries)].v) THEN entries[Len(entries)].v.n ELSE 0)

\* Object.values and Object.entries of an object.
ObjectEntries(value) == IF value.t = "object" THEN value.entries ELSE <<>>

\* An entry that prefers the declared version to the installed one.
VulnerabilityEntryDeclaredFirst(pkgName, vulnDetails) ==
  LET url == Prop(vulnDetails, "url")
  IN  With([package |-> pkgName,
            version |-> OrElse(Prop(vulnDetails, "version"),
                               OrElse(Prop(vulnDetails, "installed"), JSString(""))),
            severity |-> OrElse(Prop(vulnDetails, "severity"), JSString("unknown"))],
           "advisoryUrl", Truthy(url), url)
\* One entry of the vulnerabilities list of npm_audit; advisoryUrl is left out
\* of the JSON text when it is undefined.
VulnerabilityEntry(pkgName, vulnDetails) ==
  LET url == Prop(vulnDetails, "url")
  IN  With([package |-> pkgName,
            version |-> OrElse(Prop(vulnDetails, "installed"),
                               OrElse(Prop(vulnDetails, "version"), JSString(""))),
            severity |-> OrElse(Prop(vulnDetails, "severity"), JSString("unknown"))],
           "advisoryUrl", Truthy(url), url)

VulnerabilityKeys == <<"package", "version", "severity", "advisoryUrl">>

\* The result npm_audit builds from the parsed report, or the TypeError of
\* reading a property of a null entry of the vulnerabilities map.
NormalizeAudit(auditJson) ==
  LET metadata == Prop(auditJson, "metadata")
      rawSeveritySummary == OrElse(OptProp(metadata, "vulnerabilities"), JSObject(<<>>))
      summary == [totalVulnerabilities |-> SumCounts(ObjectEntries(rawSeveritySummary)),
                  bySeverity |-> rawSeveritySummary]
      found == IF Truthy(Prop(auditJson, "vulnerabilities"))
               THEN ObjectEntries(Prop(auditJson, "vulnerabilities"))
               ELSE <<>>
  IN  IF \E j \in 1..Len(found) : Nullish(found[j].v)
      THEN [ok |-> FALSE, error |-> TypeError]
      ELSE [ok |-> TRUE,
            data |-> [auditRunDate |-> OrElse(OptProp(metadata, "auditReportCreatedAt"),
                                              JSString("now")),
                      npmVersion |-> OrElse(OptProp(metadata, "npmVersion"), JSString("")),
                      nodeVersion |-> OrElse(OptProp(metadata, "nodeVersion"), JSString("")),
                      summary |-> summary,
                      vulnerabilities |->
                        [j \in 1..Len(found) |-> VulnerabilityEntry(found[j].k, found[j].v)],
                      rawAuditReport |-> auditJson]]

AuditKeys == <<"auditRunDate", "npmVersion", "nodeVersion", "summary",
               "vulnerabilities", "rawAuditReport">>

\* action.resolves[0] when the four conditions of the guard hold.
HasFirstResolve(action) ==
  LET resolves == Prop(action, "resolves")
  IN  /\ Truthy(resolves) /\ resolves.t = "array"
      /\ Len(resolves.elems) > 0 /\ Truthy(resolves.elems[1])
FirstResolve(action) == Prop(action, "resolves").elems[1]

\* The callback of simulationJson.actions.map for an element that is not
\* null; a property that is undefined is left out of the JSON text.
NormalizeAction(action) ==
  LET kind == Prop(action, "action")
      module == Prop(action, "module")
      name == Prop(action, "name")
      target == Prop(action, "target")
      isMajor == Prop(action, "isMajor")
      from == IF HasFirstResolve(action) THEN Prop(FirstResolve(action), "from")
              ELSE JSUndefined
      path == IF HasFirstResolve(action) THEN Prop(FirstResolve(action), "path")
              ELSE JSUndefined
      o1 == [action |-> IF kind.t = "string" THEN toLowerCase(kind.s) ELSE "unknown",
             name |-> IF module.t = "string" THEN module.s
                      ELSE IF name.t = "string" THEN name.s ELSE "unknown"]
      o2 == With(o1, "version", target.t = "string",
                 IF target.t = "string" THEN target.s ELSE "")
      o3 == With(o2, "oldVersion", from.t = "string",
                 IF from.t = "string" THEN from.s ELSE "")
      o4 == With(o3, "isMajor", isMajor.t = "boolean",
                 IF isMajor.t = "boolean" THEN isMajor.b ELSE FALSE)
  IN  With(o4, "path", path.t = "string", IF path.t = "string" THEN path.s ELSE "")

ActionKeys == <<"action", "name", "version", "oldVersion", "isMajor", "path">>

\* The result simulate_npm_audit_fix builds from the parsed output, or the
\* TypeError of reading action.action for a null element of the list.
NormalizeSimulation(simulationJson) ==
  LET actions == Prop(simulationJson, "actions")
      mapped == Truthy(actions) /\ actions.t = "array"
      metadata == Prop(simulationJson, "metadata")
  IN  IF mapped /\ \E j \in 1..Len(actions.elems) : Nullish(actions.elems[j])
      THEN [ok |-> FALSE, error |-> TypeError]
      ELSE [ok |-> TRUE,
            data |-> [simulationRunDate |-> "now",
                      npmVersion |-> OrElse(OptProp(metadata, "npmVersion"), JSString("")),
                      nodeVersion |-> OrElse(OptProp(metadata, "nodeVersion"), JSString("")),
                      summary |-> [added |-> OrElse(Prop(simulationJson, "added"), JSNumber(0)),
                                   removed |-> OrElse(Prop(simulationJson, "removed"), JSNumber(0)),
                                   changed |-> OrElse(Prop(simulationJson, "changed"), JSNumber(0)),
                                   audited |-> OrElse(Prop(simulationJson, "audited"), JSNumber(0)),
                                   funding |-> OrElse(Prop(simulationJson, "funding"), JSNumber(0))],
                      actions |-> IF mapped
                                  THEN [j \in 1..Len(actions.elems) |->
                                          NormalizeAction(actions.elems[j])]
                                  ELSE <<>>,
                      rawSimulationOutput |-> simulationJson]]

SimulationKeys == <<"simulationRunDate", "npmVersion", "nodeVersion", "summary",
                    "actions", "rawSimulationOutput">>

(***************************************************************************)
(* The server.  Each invocation of the CallTool handler is a process that  *)
(* runs on the single event loop: an action is the code between two        *)
(* suspension points.  execSync blocks the loop, so the run of the         *)
(* external command and all the code after it are one action.              *)
(***************************************************************************)
VARIABLES
  live,      \* the invocations the client makes
  pc,        \* where each invocation is
  req,       \* its request: tool name and arguments
  locals,    \* the local variables of its handler that outlive a suspension
  log,       \* its outbound calls so far, in order
  reg,       \* its fetch of the registry record
  fetches,   \* its fetch of each download period
  proc,      \* the run of its external command
  outcome,   \* how it ended: the envelope returned or the error thrown
  arg,       \* the normalizer under study and the value it is applied to
  ret        \* what it returned or threw

vars == <<live, pc, req, locals, log, reg, fetches, proc, outcome, arg, ret>>

Invocations == {1, 2}

Names ==
  {s \in SeqsUpTo(NameChars, MaxNameLen) : TRUE} \cup {<<"@", "x", "/", "x">>}

ProjectPaths == {"", "/proj"}

ArgsInputs ==
  {[packageName |-> n] : n \in Names}
    \cup {[packageName |-> n, period |-> p] :
            n \in Names, p \in PeriodSet \cup {"last-year"}}
    \cup {[projectPath |-> d] : d \in ProjectPaths}
    \cup {[other |-> "x"]}

ToolInputs == ListedTools \cup {"no_such_tool"}

\* The results of execSync: exit status zero with the captured output, a
\* non-zero exit (err.stdout is a string, possibly empty), or a command that
\* could not be started (err.stdout is absent).
OutputRuns ==
  {Run(c, 1) : c \in {"{", "}", "w", "x"} \cup MemberTokens}
    \cup {Run("x", FragmentLen + 1)}
Outputs == SeqsUpTo(OutputRuns, MaxOut)
ExecResults ==
  {[exit |-> e, stdout |-> o] : e \in {"zero", "nonzero"}, o \in Outputs}
    \cup {[exit |-> "spawn"]}

NoRequest == [tool |-> "", args |-> [other |-> "x"]]
NoOutcome == [kind |-> "none"]
NoCall == [fn |-> "none"]
Return(resultData, keys) ==
  [kind |-> "return",
   envelope |-> [content |-> <<[type |-> "text", text |-> Stringify(resultData, keys)]>>,
                 isError |-> FALSE]]
\* A failure reported in a returned envelope instead of thrown.
ThrowAsEnvelope(error) ==
  [kind |-> "return",
   envelope |-> [content |-> <<[type |-> "text", text |-> <<[k |-> "error", v |-> error.tmpl]>>]>>,
                 isError |-> TRUE]]
Throw(error) == [kind |-> "throw", error |-> error]

\* The catch of the handler: an NpmApiError is replaced by a plain Error with
\* the same message; every other error is re-thrown as it is.
HandlerCatch(error) ==
  IF error.name = "NpmApiError"
  THEN [error EXCEPT !.name = "Error", !.status = <<>>, !.code = ""]
  ELSE error

Get(base, period, name) == [ev |-> "GET", base |-> base, period |-> period, name |-> name]
ExistsSync(dir, file, result) ==
  [ev |-> "existsSync", dir |-> dir, file |-> file, result |-> result]
ExecSync(command, cwd) == [ev |-> "execSync", command |-> command, cwd |-> cwd]
Parse == [ev |-> "JSON.parse"]

Init ==
  /\ live = {1}
  /\ pc = [i \in Invocations |-> "idle"]
  /\ req = [i \in Invocations |-> NoRequest]
  /\ locals = [i \in Invocations |-> [none |-> TRUE]]
  /\ log = [i \in Invocations |-> <<>>]
  /\ reg = [i \in Invocations |-> [st |-> "none"]]
  /\ fetches = [i \in Invocations |-> [p \in PeriodSet |-> [st |-> "none"]]]
  /\ proc = [i \in Invocations |-> [st |-> "none"]]
  /\ outcome = [i \in Invocations |-> NoOutcome]
  /\ arg = NoCall
  /\ ret = NoCall

\* The invocation ends by throwing error out of the handler.
Fail(i, error) ==
  /\ pc' = [pc EXCEPT ![i] = "thrown"]
  /\ outcome' = [outcome EXCEPT ![i] = Throw(error)]

Succeed(i, resultData, keys) ==
  /\ pc' = [pc EXCEPT ![i] = "returned"]
  /\ outcome' = [outcome EXCEPT ![i] = Return(resultData, keys)]

\* get_npm_package_summary, _versions, _details with given arguments: up to
\* the await of the GET.
RegistryToolCalled(i, tool, args) ==
  /\ req' = [req EXCEPT ![i] = [tool |-> tool, args |-> args]]
  /\ UNCHANGED <<live, fetches, proc>>
  /\ IF ~PackageNameArgsSchema(args).success
     THEN Fail(i, handleZodError(tool)) /\ UNCHANGED <<locals, log, reg>>
     ELSE LET encoded == encodePackageName(PackageNameArgsSchema(args).data.packageName)
          IN  IF ~encoded.ok
              THEN Fail(i, HandlerCatch(URIError)) /\ UNCHANGED <<locals, log, reg>>
              ELSE /\ pc' = [pc EXCEPT ![i] = "awaitRegistry"]
                   /\ locals' = [locals EXCEPT ![i] = [encodedPackageName |-> encoded.val]]
                   /\ log' = [log EXCEPT ![i] =
                                Append(@, Get(NPM_REGISTRY_BASE_URL, "", encoded.val))]
                   /\ reg' = [reg EXCEPT ![i] = [st |-> "pending"]]
                   /\ UNCHANGED outcome

\* A client calls one of the three tools.
CallRegistryTool(i) ==
  /\ i \in live /\ pc[i] = "idle"
  /\ UNCHANGED <<arg, ret>>
  /\ \E tool \in RegistryTools, args \in ArgsInputs : RegistryToolCalled(i, tool, args)

\* A GET that gets no response is never settled: the handler is left waiting.
RegistrySettledUnlessLost(i, out) ==
  /\ ~Has(reg[i], "lost")
  /\ LET encoded == locals[i].encodedPackageName
         res == fetchPackageData(encoded, out)
         sourceUrl == <<NPM_REGISTRY_BASE_URL, encoded>>
     IN  IF out.k = "request"
         THEN /\ reg' = [reg EXCEPT ![i] = [st |-> "pending", lost |-> TRUE]]
              /\ UNCHANGED <<pc, outcome>>
         ELSE /\ reg' = [reg EXCEPT ![i] = [st |-> "settled", out |-> out, res |-> res]]
              /\ IF ~res.ok THEN Fail(i, HandlerCatch(res.error))
                 ELSE IF req[i].tool = "get_npm_package_summary"
                 THEN Succeed(i, transformDataForSummary(res.data, sourceUrl), SummaryKeys)
                 ELSE IF req[i].tool = "get_npm_package_versions"
                 THEN Succeed(i, transformDataForVersions(res.data, sourceUrl), VersionsKeys)
                 ELSE IF MapMaintainersThrows(res.data)
                 THEN Fail(i, HandlerCatch(MkError("TypeError", "Cannot read properties of null")))
                 ELSE Succeed(i, transformDataForDetails(res.data, sourceUrl), DetailsKeys)
  /\ UNCHANGED <<live, req, locals, log, fetches, proc>>

\* The GET of the registry record settles with an outcome and the handler
\* runs to its end.
RegistrySettled(i, out) ==
  /\ LET encoded == locals[i].encodedPackageName
         res == fetchPackageData(encoded, out)
         sourceUrl == <<NPM_REGISTRY_BASE_URL, encoded>>
     IN  /\ reg' = [reg EXCEPT ![i] = [st |-> "settled", out |-> out, res |-> res]]
         /\ IF ~res.ok THEN Fail(i, HandlerCatch(res.error))
            ELSE IF req[i].tool = "get_npm_package_summary"
            THEN Succeed(i, transformDataForSummary(res.data, sourceUrl), SummaryKeys)
            ELSE IF req[i].tool = "get_npm_package_versions"
            THEN Succeed(i, transformDataForVersions(res.data, sourceUrl), VersionsKeys)
            ELSE IF MapMaintainersThrows(res.data)
            THEN Fail(i, HandlerCatch(MkError("TypeError", "Cannot read properties of null")))
            ELSE Succeed(i, transformDataForDetails(res.data, sourceUrl), DetailsKeys)
  /\ UNCHANGED <<live, req, locals, log, fetches, proc>>

\* The outcomes of the GET of a registry record.
RegistryOutcomes == {[k |-> "ok", data |-> r] : r \in PackageRecords} \cup FailureOutcomes

SettleRegistry(i) ==
  /\ pc[i] = "awaitRegistry"
  /\ UNCHANGED <<arg, ret>>
  /\ \E out \in RegistryOutcomes : RegistrySettled(i, out)

\* The period the handler passes to fetchPackageDownloads.
RequestedPeriod(data) == IF Has(data, "period") THEN <<data.period>> ELSE <<>>

\* fetchPackageDownloads up to the await of Promise.allSettled: every fetch
\* of periodsToFetch is started, in order.
StartDownloads(i, encoded, requestedPeriod) ==
  LET ps == PeriodsToFetch(requestedPeriod)
  IN  /\ pc' = [pc EXCEPT ![i] = "awaitDownloads"]
      /\ log' = [log EXCEPT ![i] =
                   @ \o [k \in 1..Len(ps) |-> Get(NPM_DOWNLOADS_API_BASE_URL, ps[k], encoded)]]
      /\ fetches' = [fetches EXCEPT ![i] =
                       [p \in PeriodSet |-> IF p \in Range(ps) THEN [st |-> "pending"]
                                            ELSE [st |-> "none"]]]
      /\ locals' = [locals EXCEPT ![i] = [encodedPackageName |-> encoded,
                                          requestedPeriod |-> requestedPeriod]]
      /\ UNCHANGED <<reg, outcome>>

\* get_npm_package_downloads with given arguments: up to the await of
\* Promise.allSettled.
DownloadsCalled(i, args) ==
  /\ req' = [req EXCEPT ![i] = [tool |-> "get_npm_package_downloads", args |-> args]]
  /\ UNCHANGED <<live, proc>>
  /\ IF ~PackageDownloadsArgsSchema(args).success
     THEN /\ Fail(i, handleZodError("get_npm_package_downloads"))
          /\ UNCHANGED <<locals, log, reg, fetches>>
     ELSE LET data == PackageDownloadsArgsSchema(args).data
              encoded == encodePackageName(data.packageName)
          IN  IF ~encoded.ok
              THEN Fail(i, HandlerCatch(URIError)) /\ UNCHANGED <<locals, log, reg, fetches>>
              ELSE StartDownloads(i, encoded.val, RequestedPeriod(data))

CallDownloads(i) ==
  /\ i \in live /\ pc[i] = "idle"
  /\ UNCHANGED <<arg, ret>>
  /\ \E args \in ArgsInputs : DownloadsCalled(i, args)

\* One pending download fetch settles with an outcome: its promise is
\* fulfilled or rejected.  The fetch keeps its place in the order of arrival.
DownloadSettled(i, p, out) ==
  /\ fetches[i][p].st = "pending"
  /\ fetches' = [fetches EXCEPT ![i][p] =
                   [st |-> "settled", out |-> out,
                    at |-> 1 + Cardinality({q \in PeriodSet : fetches[i][q].st = "settled"}),
                    result |-> fetchSinglePeriodDownloads(
                                 p, locals[i].encodedPackageName, out)]]
  /\ UNCHANGED <<live, pc, req, locals, log, reg, proc, outcome>>

SettleDownload(i) ==
  /\ pc[i] = "awaitDownloads"
  /\ UNCHANGED <<arg, ret>>
  /\ \E p \in PeriodSet, out \in DownloadOutcomes : DownloadSettled(i, p, out)

\* The end of the downloads handler with downloadResults shared by all
\* invocations: a period that has no count of its own takes another's.
ResumeDownloadsShared(i) ==
  /\ pc[i] = "awaitDownloads"
  /\ UNCHANGED <<arg, ret>>
  /\ AllSettled(fetches[i], PeriodsToFetch(locals[i].requestedPeriod))
  /\ LET others(p) == {j \in Invocations : IsCount(fetches[j], p)}
         shared == [p \in PeriodSet |->
                      IF IsCount(fetches[i], p) \/ others(p) = {} THEN fetches[i][p]
                      ELSE fetches[CHOOSE j \in others(p) : TRUE][p]]
         res == fetchPackageDownloads(locals[i].encodedPackageName,
                                      locals[i].requestedPeriod, shared)
     IN  IF res.ok THEN Succeed(i, res.data, DownloadsKeys)
         ELSE Fail(i, HandlerCatch(res.error))
  /\ UNCHANGED <<live, req, locals, log, reg, fetches, proc>>
\* Promise.allSettled resolves and the handler runs to its end.
ResumeDownloads(i) ==
  /\ pc[i] = "awaitDownloads"
  /\ UNCHANGED <<arg, ret>>
  /\ AllSettled(fetches[i], PeriodsToFetch(locals[i].requestedPeriod))
  /\ LET res == fetchPackageDownloads(locals[i].encodedPackageName,
                                      locals[i].requestedPeriod, fetches[i])
     IN  IF res.ok THEN Succeed(i, res.data, DownloadsKeys)
         ELSE Fail(i, HandlerCatch(res.error))
  /\ UNCHANGED <<live, req, locals, log, reg, fetches, proc>>

\* The tools of the ListTools handler of src/index.ts.
ListToolsDraft ==
  <<"get_npm_package_summary", "get_npm_package_versions",
    "get_npm_package_downloads", "get_npm_package_details">>

\* The names of the tools the ListTools handler returns, in its order.
ListTools ==
  <<"get_npm_package_summary", "get_npm_package_versions",
    "get_npm_package_downloads", "get_npm_package_details",
    "npm_audit", "simulate_npm_audit_fix">>
LockFile == "package-lock.json"
NotFoundToolMsg == "Tool '${toolName}' not found or not implemented."

\* A lock-file check whose result is not acted on.
CheckLockFileIgnored(i, projectPath, exists, lockMsg) ==
  /\ log' = [log EXCEPT ![i] = Append(@, ExistsSync(projectPath, LockFile, exists))]
  /\ pc' = [pc EXCEPT ![i] = "awaitImport"]
  /\ locals' = [locals EXCEPT ![i] = [projectPath |-> projectPath]]
  /\ UNCHANGED outcome

\* The lock-file check of the two audit tools, up to the await of the import
\* of child_process.
CheckLockFile(i, projectPath, exists, lockMsg) ==
  /\ log' = [log EXCEPT ![i] = Append(@, ExistsSync(projectPath, LockFile, exists))]
  /\ IF ~exists
     THEN /\ Fail(i, [MkError("Error", lockMsg) EXCEPT !.path = projectPath])
          /\ UNCHANGED locals
     ELSE /\ pc' = [pc EXCEPT ![i] = "awaitImport"]
          /\ locals' = [locals EXCEPT ![i] = [projectPath |-> projectPath]]
          /\ UNCHANGED outcome

\* npm_audit with given arguments and a given result of the lock-file check:
\* up to the await of the import.
NpmAuditCalled(i, args, exists) ==
  /\ req' = [req EXCEPT ![i] = [tool |-> "npm_audit", args |-> args]]
  /\ UNCHANGED <<live, reg, fetches, proc>>
  /\ IF ~NpmAuditArgsSchema(args).success
     THEN Fail(i, handleZodError("npm_audit")) /\ UNCHANGED <<locals, log>>
     ELSE CheckLockFile(i, NpmAuditArgsSchema(args).data.projectPath, exists, AuditLockMsg)

CallNpmAudit(i) ==
  /\ i \in live /\ pc[i] = "idle"
  /\ UNCHANGED <<arg, ret>>
  /\ \E args \in ArgsInputs, exists \in BOOLEAN : NpmAuditCalled(i, args, exists)

\* simulate_npm_audit_fix with given arguments and a given result of the
\* lock-file check: up to the await of the import.
SimulateCalled(i, args, exists) ==
  /\ req' = [req EXCEPT ![i] = [tool |-> "simulate_npm_audit_fix", args |-> args]]
  /\ UNCHANGED <<live, reg, fetches, proc>>
  /\ IF ~SimulateNpmAuditFixArgsSchema(args).success
     THEN Fail(i, handleZodError("simulate_npm_audit_fix")) /\ UNCHANGED <<locals, log>>
     ELSE CheckLockFile(i, SimulateNpmAuditFixArgsSchema(args).data.projectPath,
                        exists, AuditFixLockMsg)

CallSimulate(i) ==
  /\ i \in live /\ pc[i] = "idle"
  /\ UNCHANGED <<arg, ret>>
  /\ \E args \in ArgsInputs, exists \in BOOLEAN : SimulateCalled(i, args, exists)

\* npm_audit with the command started in one step and its exit handled in a
\* later one, as with an asynchronous exec.
NpmAuditRanAsync(i, result) ==
  IF proc[i].st = "none"
  THEN /\ proc' = [proc EXCEPT ![i] = [st |-> "running"]]
       /\ log' = [log EXCEPT ![i] = Append(@, ExecSync("npm audit --json", locals[i].projectPath))]
       /\ UNCHANGED <<live, pc, req, locals, reg, fetches, outcome>>
  ELSE /\ proc' = [proc EXCEPT ![i] = [st |-> "exited", result |-> result]]
       /\ LET projectPath == locals[i].projectPath
              captured == CaptureStdout(result)
              parsed == ParseAuditOutput(captured.raw, projectPath)
          IN  IF ~captured.ok
              THEN /\ UNCHANGED log
                   /\ Fail(i, [MkError("Error", AuditRunMsg) EXCEPT !.path = projectPath])
              ELSE /\ log' = [log EXCEPT ![i] = Append(@, Parse)]
                   /\ IF ~parsed.ok THEN Fail(i, parsed.error)
                      ELSE IF NormalizeAudit(parsed.json).ok
                      THEN Succeed(i, NormalizeAudit(parsed.json).data, AuditKeys)
                      ELSE Fail(i, HandlerCatch(NormalizeAudit(parsed.json).error))
       /\ UNCHANGED <<live, req, locals, reg, fetches>>
\* npm_audit from the import to its end: the command runs and exits with a
\* given result, its output is captured, parsed and normalized.  execSync is
\* synchronous: the whole of it is one step.
NpmAuditRan(i, result) ==
  /\ proc' = [proc EXCEPT ![i] = [st |-> "exited", result |-> result]]
  /\ LET projectPath == locals[i].projectPath
         run == ExecSync("npm audit --json", projectPath)
         captured == CaptureStdout(result)
     IN  IF ~captured.ok
         THEN /\ log' = [log EXCEPT ![i] = Append(@, run)]
              /\ Fail(i, [MkError("Error", AuditRunMsg) EXCEPT !.path = projectPath])
         ELSE /\ log' = [log EXCEPT ![i] = @ \o <<run, Parse>>]
              /\ LET parsed == ParseAuditOutput(captured.raw, projectPath)
                 IN  IF ~parsed.ok THEN Fail(i, parsed.error)
                     ELSE IF NormalizeAudit(parsed.json).ok
                     THEN Succeed(i, NormalizeAudit(parsed.json).data, AuditKeys)
                     ELSE Fail(i, HandlerCatch(NormalizeAudit(parsed.json).error))
  /\ UNCHANGED <<live, req, locals, reg, fetches>>

RunNpmAudit(i) ==
  /\ pc[i] = "awaitImport" /\ req[i].tool = "npm_audit"
  /\ UNCHANGED <<arg, ret>>
  /\ \E result \in ExecResults : NpmAuditRan(i, result)

\* JSON.parse is reached in simulate_npm_audit_fix only when a brace is found.
SimulationLog(run, raw) ==
  IF indexOf(raw, "{") = -1 THEN <<run>> ELSE <<run, Parse>>

\* simulate_npm_audit_fix from the import to its end, the command exiting
\* with a given result.
SimulationRan(i, result) ==
  /\ proc' = [proc EXCEPT ![i] = [st |-> "exited", result |-> result]]
  /\ LET projectPath == locals[i].projectPath
         run == ExecSync("npm audit fix --dry-run --json", projectPath)
         captured == CaptureStdout(result)
     IN  IF ~captured.ok
         THEN /\ log' = [log EXCEPT ![i] = Append(@, run)]
              /\ Fail(i, [MkError("Error", FixRunMsg) EXCEPT !.path = projectPath])
         ELSE /\ log' = [log EXCEPT ![i] = @ \o SimulationLog(run, captured.raw)]
              /\ LET parsed == ParseSimulationOutput(captured.raw, projectPath)
                 IN  IF ~parsed.ok THEN Fail(i, parsed.error)
                     ELSE IF NormalizeSimulation(parsed.json).ok
                     THEN Succeed(i, NormalizeSimulation(parsed.json).data, SimulationKeys)
                     ELSE Fail(i, HandlerCatch(NormalizeSimulation(parsed.json).error))
  /\ UNCHANGED <<live, req, locals, reg, fetches>>

RunSimulate(i) ==
  /\ pc[i] = "awaitImport" /\ req[i].tool = "simulate_npm_audit_fix"
  /\ UNCHANGED <<arg, ret>>
  /\ \E result \in ExecResults : SimulationRan(i, result)

\* Any other tool name: the default branch of the switch.
UnknownToolCalled(i, tool, args) ==
  /\ req' = [req EXCEPT ![i] = [tool |-> tool, args |-> args]]
  /\ Fail(i, [MkError("Error", NotFoundToolMsg) EXCEPT !.tool = tool])
  /\ UNCHANGED <<live, locals, log, reg, fetches, proc>>

CallUnknownTool(i) ==
  /\ i \in live /\ pc[i] = "idle"
  /\ UNCHANGED <<arg, ret>>
  /\ \E tool \in ToolInputs \ ListedTools, args \in ArgsInputs : UnknownToolCalled(i, tool, args)

Next ==
  \E i \in Invocations :
    \/ CallRegistryTool(i)
    \/ CallDownloads(i)
    \/ CallNpmAudit(i)
    \/ CallSimulate(i)
    \/ CallUnknownTool(i)
    \/ SettleRegistry(i)
    \/ SettleDownload(i)
    \/ ResumeDownloads(i)
    \/ RunNpmAudit(i)
    \/ RunSimulate(i)

Spec == Init /\ [][Next]_vars

(***************************************************************************)
(* The same call made twice.  The first invocation runs one of the four    *)
(* registry-read tools to its end; the second repeats its tool and         *)
(* arguments, and the upstream answers each of its GETs as it answered the *)
(* first time, the fetches of the downloads tool arriving in any order.    *)
(***************************************************************************)
TwiceArgs ==
  {[packageName |-> <<"x">>], [packageName |-> <<"hs">>],
   [packageName |-> <<"x">>, period |-> "last-week"],
   [packageName |-> <<"x">>, period |-> "last-year"],
   [other |-> "x"]}

Ended(i) == pc[i] \in {"returned", "thrown"}

InitTwice ==
  /\ live = Invocations
  /\ pc = [i \in Invocations |-> "idle"]
  /\ req = [i \in Invocations |-> NoRequest]
  /\ locals = [i \in Invocations |-> [none |-> TRUE]]
  /\ log = [i \in Invocations |-> <<>>]
  /\ reg = [i \in Invocations |-> [st |-> "none"]]
  /\ fetches = [i \in Invocations |-> [p \in PeriodSet |-> [st |-> "none"]]]
  /\ proc = [i \in Invocations |-> [st |-> "none"]]
  /\ outcome = [i \in Invocations |-> NoOutcome]
  /\ arg = NoCall
  /\ ret = NoCall

CallRegistryToolFirst ==
  /\ pc[1] = "idle" /\ pc[2] = "idle"
  /\ UNCHANGED <<arg, ret>>
  /\ \E tool \in RegistryTools, args \in TwiceArgs : RegistryToolCalled(1, tool, args)

CallDownloadsFirst ==
  /\ pc[1] = "idle" /\ pc[2] = "idle"
  /\ UNCHANGED <<arg, ret>>
  /\ \E args \in TwiceArgs : DownloadsCalled(1, args)

CallRegistryToolAgain ==
  /\ Ended(1) /\ pc[2] = "idle"
  /\ req[1].tool \in RegistryTools
  /\ UNCHANGED <<arg, ret>>
  /\ RegistryToolCalled(2, req[1].tool, req[1].args)

CallDownloadsAgain ==
  /\ Ended(1) /\ pc[2] = "idle"
  /\ req[1].tool = "get_npm_package_downloads"
  /\ UNCHANGED <<arg, ret>>
  /\ DownloadsCalled(2, req[1].args)

\* The registry answers the second GET as it answered the first.
SettleRegistryAgain ==
  /\ pc[2] = "awaitRegistry"
  /\ UNCHANGED <<arg, ret>>
  /\ RegistrySettled(2, reg[1].out)

\* The downloads endpoint answers a GET of the second call as it answered the
\* GET of the same period the first time.
SettleDownloadAgain ==
  /\ pc[2] = "awaitDownloads"
  /\ UNCHANGED <<arg, ret>>
  /\ \E p \in PeriodSet :
       /\ fetches[1][p].st = "settled"
       /\ DownloadSettled(2, p, fetches[1][p].out)

NextTwice ==
  \/ CallRegistryToolFirst
  \/ CallDownloadsFirst
  \/ SettleRegistry(1)
  \/ SettleDownload(1)
  \/ ResumeDownloads(1)
  \/ CallRegistryToolAgain
  \/ CallDownloadsAgain
  \/ SettleRegistryAgain
  \/ SettleDownloadAgain
  \/ ResumeDownloads(2)

SpecTwice == InitTwice /\ [][NextTwice]_vars

(***************************************************************************)
(* Several invocations in flight at once.  Every invocation is live; the   *)
(* handler of each runs from one suspension point to the next in one step, *)
(* and the steps of different invocations interleave in every order.  The  *)
(* inputs are a few of each kind.                                          *)
(***************************************************************************)
InFlightArgs ==
  {[packageName |-> <<"x">>],
   [packageName |-> <<"x">>, period |-> "last-day"],
   [projectPath |-> "/proj"],
   [other |-> "x"]}

InFlightRegistryOutcomes ==
  {[k |-> "ok", data |-> [name |-> "bare", distTags |-> [other |-> <<"1">>]]],
   [k |-> "response", status |-> 404],
   [k |-> "request"]}

InFlightDownloadOutcomes ==
  {[k |-> "ok", downloads |-> JSNumber(7)], [k |-> "request"]}

InFlightExecResults ==
  {[exit |-> "zero", stdout |-> <<Run("{", 1), Run("r", 1), Run("}", 1)>>],
   [exit |-> "zero", stdout |-> <<Run("x", 1)>>],
   [exit |-> "nonzero", stdout |-> <<>>],
   [exit |-> "spawn"]}

InitInFlight ==
  /\ live = Invocations
  /\ pc = [i \in Invocations |-> "idle"]
  /\ req = [i \in Invocations |-> NoRequest]
  /\ locals = [i \in Invocations |-> [none |-> TRUE]]
  /\ log = [i \in Invocations |-> <<>>]
  /\ reg = [i \in Invocations |-> [st |-> "none"]]
  /\ fetches = [i \in Invocations |-> [p \in PeriodSet |-> [st |-> "none"]]]
  /\ proc = [i \in Invocations |-> [st |-> "none"]]
  /\ outcome = [i \in Invocations |-> NoOutcome]
  /\ arg = NoCall
  /\ ret = NoCall

\* A request arrives: the switch of the handler on the tool name.
CallToolInFlight(i) ==
  /\ i \in live /\ pc[i] = "idle"
  /\ UNCHANGED <<arg, ret>>
  /\ \E tool \in ToolInputs, args \in InFlightArgs, exists \in BOOLEAN :
       IF tool \in RegistryTools THEN RegistryToolCalled(i, tool, args)
       ELSE IF tool = "get_npm_package_downloads" THEN DownloadsCalled(i, args)
       ELSE IF tool = "npm_audit" THEN NpmAuditCalled(i, args, exists)
       ELSE IF tool = "simulate_npm_audit_fix" THEN SimulateCalled(i, args, exists)
       ELSE UnknownToolCalled(i, tool, args)

SettleRegistryInFlight(i) ==
  /\ pc[i] = "awaitRegistry"
  /\ UNCHANGED <<arg, ret>>
  /\ \E out \in InFlightRegistryOutcomes : RegistrySettled(i, out)

SettleDownloadInFlight(i) ==
  /\ pc[i] = "awaitDownloads"
  /\ UNCHANGED <<arg, ret>>
  /\ \E p \in PeriodSet, out \in InFlightDownloadOutcomes : DownloadSettled(i, p, out)

\* The import has resolved: the command runs and exits, and the handler runs
\* to its end.
RunCommandInFlight(i) ==
  /\ pc[i] = "awaitImport"
  /\ UNCHANGED <<arg, ret>>
  /\ \E result \in InFlightExecResults :
       IF req[i].tool = "npm_audit" THEN NpmAuditRan(i, result)
       ELSE SimulationRan(i, result)

NextInFlight ==
  \E i \in Invocations :
    \/ CallToolInFlight(i)
    \/ SettleRegistryInFlight(i)
    \/ SettleDownloadInFlight(i)
    \/ ResumeDownloads(i)
    \/ RunCommandInFlight(i)

SpecInFlight == InitInFlight /\ [][NextInFlight]_vars

\* Every request that was issued settles, every command that was started
\* exits, and a handler whose awaited promise has resolved is resumed.
FairInFlight ==
  \A i \in Invocations :
    /\ WF_vars(SettleRegistryInFlight(i))
    /\ WF_vars(SettleDownloadInFlight(i))
    /\ WF_vars(ResumeDownloads(i))
    /\ WF_vars(RunCommandInFlight(i))

SpecInFlightFair == SpecInFlight /\ FairInFlight

(***************************************************************************)
(* The normalizers on their own: each is a function of the value it is     *)
(* given, so it is applied here to every value of a bounded set of parsed  *)
(* outputs, without the handler around it.                                 *)
(***************************************************************************)
\* A member that may be missing: no member, or the member with one of vs.
Opt(k, vs) == {<<>>} \cup {<<Member(k, v)>> : v \in vs}

\* The elements of an actions array: objects with every combination of
\* missing, well-typed and ill-typed fields, and values that are not objects.
ResolvesValues ==
  { JSString("all"), JSArray(<<>>), JSArray(<<JSNull>>), JSArray(<<JSNumber(5)>>),
    JSArray(<<JSObject(<<Member("from", JSNumber(1))>>)>>),
    JSArray(<<JSObject(<<Member("from", JSString("1.0.0")),
                         Member("path", JSString("a>b"))>>),
              JSNull>>) }
ActionObjects ==
  { JSObject(a \o m \o n \o t \o j \o r) :
      a \in Opt("action", {JSString("Update"), JSNumber(5)}),
      m \in Opt("module", {JSString("lodash"), JSNumber(5)}),
      n \in Opt("name", {JSString("semver"), JSNull}),
      t \in Opt("target", {JSString("1.0.1"), JSNumber(1)}),
      j \in Opt("isMajor", {JSBool(TRUE), JSString("yes")}),
      r \in Opt("resolves", ResolvesValues) }
ActionElements ==
  ActionObjects \cup {JSNull, JSNumber(5), JSString("add"), JSArray(<<>>)}
SampleActions ==
  { JSNull, JSString("add"), JSObject(<<>>),
    JSObject(<<Member("action", JSString("ADD")), Member("name", JSString("semver"))>>) }
ActionLists ==
  {<<e>> : e \in ActionElements} \cup SeqsUpTo(SampleActions, MaxActions)

\* The parsed outputs of the fix simulation: an actions array, an actions
\* member that is not an array, or none.
SimulationOutputs ==
  {JSObject(<<Member("actions", JSArray(l)), Member("added", JSNumber(1))>>) :
     l \in ActionLists}
    \cup {JSObject(<<Member("actions", v)>>) : v \in {JSNull, JSString("none")}}
    \cup {JSObject(<<>>)}

\* The parsed reports of the audit.  The severity summary has each of the
\* five buckets or not, and the total that npm writes beside them or not; a
\* count is a number or null.
Buckets == <<"info", "low", "moderate", "high", "critical">>
SeveritySummaries ==
  { JSObject(i \o l \o m \o h \o c \o t) :
      i \in Opt("info", {JSNumber(0), JSNumber(1)}),
      l \in Opt("low", {JSNumber(0), JSNumber(2)}),
      m \in Opt("moderate", {JSNumber(3)}),
      h \in Opt("high", {JSNumber(1), JSNull}),
      c \in Opt("critical", {JSNumber(0), JSNumber(4)}),
      t \in Opt("total", {JSNumber(5)}) }
Metadatas ==
  {JSObject(<<Member("vulnerabilities", v)>>) : v \in SeveritySummaries}
    \cup { JSObject(<<Member("npmVersion", JSString("10.2.4"))>>), JSNull }

\* The entries of the vulnerabilities map: each field missing, empty or set.
VulnDetails ==
  { JSObject(i \o v \o s \o u) :
      i \in Opt("installed", {JSString(""), JSString("1.0.0")}),
      v \in Opt("version", {JSString(""), JSString("2.0.0")}),
      s \in Opt("severity", {JSString(""), JSString("high")}),
      u \in Opt("url", {JSString(""), JSString("https://a")}) }
SampleDetails ==
  { JSNull, JSObject(<<>>),
    JSObject(<<Member("installed", JSString("1.0.0")), Member("severity", JSString("low")),
               Member("url", JSString("https://a"))>>) }
VulnKeys == <<"lodash", "semver", "tar">>
VulnMaps ==
  {JSObject(<<Member("lodash", d)>>) : d \in VulnDetails}
    \cup { JSObject([j \in 1..Len(ds) |-> Member(VulnKeys[j], ds[j])]) :
             ds \in SeqsUpTo(SampleDetails, MaxVulns) }

AuditReports ==
  {JSObject(<<Member("metadata", m)>>) : m \in Metadatas}
    \cup {JSObject(<<Member("vulnerabilities", v)>>) : v \in VulnMaps}
    \cup { JSObject(<<>>), JSObject(ReportMembers),
           JSObject(<<Member("vulnerabilities", JSNull)>>) }

\* The registry records the transforms are applied to.  A part that may be
\* missing is a record with or without the field.
Part(k, vs) == {<<>>} \cup {(k :> v) : v \in vs}

V112 == <<"1", ".", "1", ".", "2">>
V200 == <<"2", ".", "1", ".", "1">>

DistTagsValues == {[other |-> V112], [latest |-> <<>>], [latest |-> V112], [latest |-> V200]}
TimeValues ==
  { <<>>,
    <<[k |-> <<"c">>, v |-> "t0"], [k |-> V112, v |-> "t1"]>>,
    <<[k |-> V112, v |-> ""]>>,
    <<[k |-> V200, v |-> "t2"], [k |-> <<"m">>, v |-> "t3"]>> }
LicenseValues ==
  { [t |-> "null"], [t |-> "string", v |-> "MIT"], [t |-> "string", v |-> ""],
    [t |-> "object", type |-> "ISC"], [t |-> "object", type |-> ""],
    [t |-> "object", url |-> "u"] }
RepositoryValues ==
  { [type |-> "git"], [type |-> "git", url |-> <<>>],
    [type |-> "git", url |-> GitPlus \o <<"h">> \o DotGit] }
MaintainersValues ==
  { <<>>, <<[name |-> "doug", email |-> "d@x", url |-> "u"]>>,
    <<[name |-> "doug", email |-> "d@x"], [name |-> "tj", email |-> "t@x"]>>,
    <<[name |-> "doug", email |-> "d@x"], [t |-> "null"]>> }
KeywordsValues == {<<>>, <<"web", "rest">>}
TextValues ==
  {<<>>, [description |-> "web framework", homepage |-> "http://expressjs.com/"]}

SummaryRecords ==
  { [name |-> "express"] @@ d @@ t @@ l @@ r @@ x :
      d \in Part("distTags", DistTagsValues), t \in Part("time", TimeValues),
      l \in Part("license", LicenseValues), r \in Part("repository", RepositoryValues),
      x \in TextValues }
DetailsRecords ==
  { r @@ m @@ k :
      r \in SummaryRecords,
      m \in Part("maintainers", MaintainersValues), k \in Part("keywords", KeywordsValues) }

\* Records whose time mapping has one key, for every key of bounded length.
KeyChars == {"1", ".", "-", "c"}
TimeKeys ==
  SeqsUpTo(KeyChars, MaxKeyLen)
    \cup {V112 \o <<"\n">>, V112 \o <<"-", "\n">>, V112 \o <<"-", "c", "\n", "c">>}
KeyRecords ==
  {[name |-> "express", time |-> <<[k |-> key, v |-> "t1"]>>] : key \in TimeKeys}
    \cup { [name |-> "express",
            time |-> << [k |-> <<"c">>, v |-> "t0"], [k |-> V112, v |-> "t1"],
                        [k |-> <<"m">>, v |-> "t2"], [k |-> V200 \o <<"-", "c">>, v |-> "t3"] >>] }

\* Records whose repository URL is made of up to MaxUrlSegs segments: the
\* prefix, the suffix and other text.
UrlSegments == {GitPlus, DotGit, <<"h">>, <<"g", "i", "t">>}
Urls == {Flatten(segs) : segs \in SeqsUpTo(UrlSegments, MaxUrlSegs)}
UrlRecords ==
  {[name |-> "express", repository |-> [type |-> "git", url |-> u]] : u \in Urls}

SampleSourceUrl == <<NPM_REGISTRY_BASE_URL, <<"e">>>>

Call(fn, value) == [fn |-> fn, value |-> value]

InitNormalizer ==
  /\ live = {}
  /\ pc = [i \in Invocations |-> "idle"]
  /\ req = [i \in Invocations |-> NoRequest]
  /\ locals = [i \in Invocations |-> [none |-> TRUE]]
  /\ log = [i \in Invocations |-> <<>>]
  /\ reg = [i \in Invocations |-> [st |-> "none"]]
  /\ fetches = [i \in Invocations |-> [p \in PeriodSet |-> [st |-> "none"]]]
  /\ proc = [i \in Invocations |-> [st |-> "none"]]
  /\ outcome = [i \in Invocations |-> NoOutcome]
  /\ arg \in {Call("NormalizeSimulation", v) : v \in SimulationOutputs}
            \cup {Call("NormalizeAudit", v) : v \in AuditReports}
            \cup {Call("transformDataForSummary", r) : r \in SummaryRecords \cup UrlRecords}
            \cup {Call("transformDataForVersions", r) : r \in SummaryRecords \cup KeyRecords}
            \cup {Call("transformDataForDetails", r) : r \in DetailsRecords \cup UrlRecords}
  /\ ret = NoCall

ApplyNormalizeSimulation ==
  /\ arg.fn = "NormalizeSimulation" /\ ret = NoCall
  /\ ret' = NormalizeSimulation(arg.value)
  /\ UNCHANGED <<live, pc, req, locals, log, reg, fetches, proc, outcome, arg>>

ApplyNormalizeAudit ==
  /\ arg.fn = "NormalizeAudit" /\ ret = NoCall
  /\ ret' = NormalizeAudit(arg.value)
  /\ UNCHANGED <<live, pc, req, locals, log, reg, fetches, proc, outcome, arg>>

ApplySummary ==
  /\ arg.fn = "transformDataForSummary" /\ ret = NoCall
  /\ ret' = [ok |-> TRUE, data |-> transformDataForSummary(arg.value, SampleSourceUrl)]
  /\ UNCHANGED <<live, pc, req, locals, log, reg, fetches, proc, outcome, arg>>

ApplyVersions ==
  /\ arg.fn = "transformDataForVersions" /\ ret = NoCall
  /\ ret' = [ok |-> TRUE, data |-> transformDataForVersions(arg.value, SampleSourceUrl)]
  /\ UNCHANGED <<live, pc, req, locals, log, reg, fetches, proc, outcome, arg>>

ApplyDetails ==
  /\ arg.fn = "transformDataForDetails" /\ ret = NoCall
  /\ ret' = IF MapMaintainersThrows(arg.value)
            THEN [ok |-> FALSE, error |-> TypeError]
            ELSE [ok |-> TRUE, data |-> transformDataForDetails(arg.value, SampleSourceUrl)]
  /\ UNCHANGED <<live, pc, req, locals, log, reg, fetches, proc, outcome, arg>>

NextNormalizer ==
  \/ ApplyNormalizeSimulation
  \/ ApplyNormalizeAudit
  \/ ApplySummary
  \/ ApplyVersions
  \/ ApplyDetails

SpecNormalizer == InitNormalizer /\ [][NextNormalizer]_vars

(***************************************************************************)
(* The handler of src/index.ts, an earlier draft with the four registry    *)
(* tools: the arguments of every tool are validated by one union schema    *)
(* before the switch.  The fetch functions are the same.                   *)
(***************************************************************************)
DraftInvalidMsg ==
  "Invalid arguments for tool ${toolName}: ${parseResult.error.flatten().fieldErrors}"

\* 'period' in validatedArgs ? validatedArgs.period : undefined
DraftPeriod(validatedArgs) ==
  IF Has(validatedArgs, "period") THEN <<validatedArgs.period>> ELSE <<>>

CallToolDraft(i) ==
  /\ i \in live /\ pc[i] = "idle"
  /\ UNCHANGED <<arg, ret>>
  /\ \E tool \in ToolInputs, args \in ArgsInputs :
      /\ req' = [req EXCEPT ![i] = [tool |-> tool, args |-> args]]
      /\ UNCHANGED <<live, proc>>
      /\ IF ~AnyToolArgsSchema(args).success
         THEN /\ Fail(i, [MkError("Error", DraftInvalidMsg) EXCEPT !.tool = tool])
              /\ UNCHANGED <<locals, log, reg, fetches>>
         ELSE LET validatedArgs == AnyToolArgsSchema(args).data
                  encoded == encodePackageName(validatedArgs.packageName)
              IN  IF ~encoded.ok
                  THEN Fail(i, URIError) /\ UNCHANGED <<locals, log, reg, fetches>>
                  ELSE IF tool \in RegistryTools
                  THEN /\ pc' = [pc EXCEPT ![i] = "awaitRegistry"]
                       /\ locals' = [locals EXCEPT ![i] = [encodedPackageName |-> encoded.val]]
                       /\ log' = [log EXCEPT ![i] =
                                    Append(@, Get(NPM_REGISTRY_BASE_URL, "", encoded.val))]
                       /\ reg' = [reg EXCEPT ![i] = [st |-> "pending"]]
                       /\ UNCHANGED <<fetches, outcome>>
                  ELSE IF tool = "get_npm_package_downloads"
                  THEN StartDownloads(i, encoded.val, DraftPeriod(validatedArgs))
                  ELSE /\ Fail(i, [MkError("Error", NotFoundToolMsg) EXCEPT !.tool = tool])
                       /\ UNCHANGED <<locals, log, reg, fetches>>

NextDraft ==
  \E i \in Invocations :
    \/ CallToolDraft(i)
    \/ SettleRegistry(i)
    \/ SettleDownload(i)
    \/ ResumeDownloads(i)

SpecDraft == Init /\ [][NextDraft]_vars

(***************************************************************************)
(* Properties.                                                             *)
(***************************************************************************)
DownloadsCall(i) == Has(locals[i], "requestedPeriod")
Requested(i) == Range(PeriodsToFetch(locals[i].requestedPeriod))
Events(i, ev) == {k \in 1..Len(log[i]) : log[i][k].ev = ev}

\* The downloads mapping of the JSON text returned by a downloads call.
DownloadsOf(i) == outcome[i].envelope.content[1].text[1].v
KeysOf(mapping) == {mapping[j].k : j \in 1..Len(mapping)}

\* The fetch of period p succeeded with a count / failed.
SucceededWithCount(i, p) ==
  /\ fetches[i][p].st = "settled"
  /\ fetches[i][p].out.k = "ok"
  /\ fetches[i][p].out.downloads.t = "number"
FetchFailed(i, p) == fetches[i][p].st = "settled" /\ fetches[i][p].out.k # "ok"

\* C1: whatever subset of the requested download fetches fails, and however
\* (404, other status, no response, setup failure), fetchPackageDownloads
\* returns, and its downloads mapping holds exactly the requested periods
\* whose fetch succeeded with a count, each with that count.
C1_PartialFailureTolerated ==
  \A i \in Invocations :
    (DownloadsCall(i) /\ pc[i] # "awaitDownloads") =>
      /\ outcome[i].kind = "return"
      /\ outcome[i].envelope.content[1].text[1].k = "downloads"
      /\ KeysOf(DownloadsOf(i)) = {p \in Requested(i) : SucceededWithCount(i, p)}
      /\ Len(DownloadsOf(i)) = Cardinality(KeysOf(DownloadsOf(i)))
      /\ \A j \in 1..Len(DownloadsOf(i)) :
           DownloadsOf(i)[j].v = fetches[i][DownloadsOf(i)[j].k].out.downloads.n

\* No period named, only last-week failed, one of the others counted zero:
\* the call returned last-day and last-month.
C1_Witness ==
  \E i \in Invocations :
    /\ DownloadsCall(i) /\ locals[i].requestedPeriod = <<>> /\ pc[i] = "returned"
    /\ FetchFailed(i, "last-week")
    /\ SucceededWithCount(i, "last-day") /\ SucceededWithCount(i, "last-month")
    /\ fetches[i]["last-day"].out.downloads.n = 0
    /\ KeysOf(DownloadsOf(i)) = {"last-day", "last-month"}

\* C2: every requested fetch is started before any is awaited, and the
\* aggregator produces its result only when every started fetch has settled:
\* while one is pending, the call has neither returned nor thrown.
C2_WaitsForEveryFetch ==
  \A i \in Invocations :
    DownloadsCall(i) =>
      /\ \A p \in Requested(i) : fetches[i][p].st # "none"
      /\ Cardinality(Events(i, "GET")) = Cardinality(Requested(i))
      /\ Ended(i) => \A p \in Requested(i) : fetches[i][p].st = "settled"

\* A fetch has failed while another is still pending, and the aggregator is
\* still waiting.
C2_Witness ==
  \E i \in Invocations :
    /\ DownloadsCall(i) /\ pc[i] = "awaitDownloads"
    /\ FetchFailed(i, "last-day")
    /\ fetches[i]["last-week"].st = "pending"
    /\ SucceededWithCount(i, "last-month")

\* C3: a get_npm_package_downloads call that names a period issues exactly
\* one download fetch, for that period, and its result can contain only that
\* period; a call that names no period issues exactly three, one per period.
C3_OneFetchPerNamedPeriod ==
  \A i \in Invocations :
    (req[i].tool = "get_npm_package_downloads" /\ Events(i, "GET") # {}) =>
      LET named == IF Has(req[i].args, "period") THEN {req[i].args.period} ELSE PeriodSet
      IN  /\ named \subseteq PeriodSet
          /\ Cardinality(Events(i, "GET")) = Cardinality(named)
          /\ {log[i][k].period : k \in Events(i, "GET")} = named
          /\ \A k \in Events(i, "GET") : log[i][k].base = NPM_DOWNLOADS_API_BASE_URL
          /\ pc[i] = "returned" => KeysOf(DownloadsOf(i)) \subseteq named

\* The four classes of failure of the registry fetch.
FailureClass(out) ==
  IF out.k = "response"
  THEN IF out.status = 404 THEN "NPM_PKG_NOT_FOUND" ELSE "NPM_API_ERROR"
  ELSE IF out.k = "request" THEN "NPM_API_NO_RESPONSE"
  ELSE "NPM_API_REQUEST_SETUP_ERROR"

\* C4: fetchPackageData returns the record of a successful fetch unchanged
\* and maps a failure to the typed error of its class: 404 to
\* NPM_PKG_NOT_FOUND with status 404, another status to NPM_API_ERROR with
\* that status, no response to NPM_API_NO_RESPONSE and anything else to
\* NPM_API_REQUEST_SETUP_ERROR, both without a status.
C4_FailureMapping ==
  \A i \in Invocations :
    reg[i].st = "settled" =>
      IF reg[i].out.k = "ok"
      THEN reg[i].res.ok /\ reg[i].res.data = reg[i].out.data
      ELSE /\ ~reg[i].res.ok
           /\ reg[i].res.error.name = "NpmApiError"
           /\ reg[i].res.error.code = FailureClass(reg[i].out)
           /\ reg[i].res.error.status =
                IF reg[i].out.k = "response" THEN <<reg[i].out.status>> ELSE <<>>
           /\ reg[i].res.error.tmpl =
                CASE reg[i].res.error.code = "NPM_PKG_NOT_FOUND" -> NotFoundMsg
                  [] reg[i].res.error.code = "NPM_API_ERROR" -> ApiErrorMsg
                  [] reg[i].res.error.code = "NPM_API_NO_RESPONSE" -> NoResponseMsg
                  [] OTHER -> SetupErrorMsg

C4_Witness ==
  \E i \in Invocations :
    /\ reg[i].st = "settled" /\ reg[i].out.k = "response" /\ reg[i].out.status = 404
    /\ reg[i].res.error.code = "NPM_PKG_NOT_FOUND" /\ reg[i].res.error.status = <<404>>

\* C5: when the registry answers 404 to a summary, versions or details call,
\* the call fails and the message that reaches the caller is the not-found
\* message with the package name exactly as the caller gave it.
C5_NotFoundNamesPackage ==
  \A i \in Invocations :
    (reg[i].st = "settled" /\ reg[i].out.k = "response" /\ reg[i].out.status = 404) =>
      /\ req[i].tool \in RegistryTools
      /\ outcome[i].kind = "throw"
      /\ outcome[i].error.tmpl = NotFoundMsg
      /\ outcome[i].error.pkg = req[i].args.packageName

\* The scoped name @x/x was not found.
C5_Witness ==
  \E i \in Invocations :
    /\ reg[i].st = "settled" /\ reg[i].out.k = "response" /\ reg[i].out.status = 404
    /\ req[i].args.packageName = <<"@", "x", "/", "x">>
    /\ locals[i].encodedPackageName # req[i].args.packageName
    /\ outcome[i].kind = "throw" /\ outcome[i].error.pkg = <<"@", "x", "/", "x">>

LockMsgOf(tool) == IF tool = "npm_audit" THEN AuditLockMsg ELSE AuditFixLockMsg
RunMsgOf(tool) == IF tool = "npm_audit" THEN AuditRunMsg ELSE FixRunMsg
ParseMsgOf(tool) == IF tool = "npm_audit" THEN AuditParseMsg ELSE FixParseMsg

\* C6: in npm_audit and simulate_npm_audit_fix, a missing package-lock.json
\* makes the call fail with the error that names the lock file and the
\* project path, with no subprocess started; every subprocess start comes
\* after a successful existence check of the lock file in its directory.
C6_LockFileBeforeSubprocess ==
  \A i \in Invocations :
    /\ \A k \in Events(i, "execSync") :
         \E j \in Events(i, "existsSync") :
           /\ j < k /\ log[i][j].result
           /\ log[i][j].dir = log[i][k].cwd /\ log[i][j].file = "package-lock.json"
    /\ (\E j \in Events(i, "existsSync") : ~log[i][j].result) =>
         /\ req[i].tool \in AuditTools
         /\ Events(i, "execSync") = {}
         /\ proc[i].st = "none"
         /\ outcome[i].kind = "throw"
         /\ outcome[i].error.tmpl = LockMsgOf(req[i].tool)
         /\ outcome[i].error.path = req[i].args.projectPath

C6_Witness ==
  \E i \in Invocations :
    /\ req[i].tool = "simulate_npm_audit_fix"
    /\ \E j \in Events(i, "existsSync") : ~log[i][j].result
    /\ outcome[i].kind = "throw" /\ outcome[i].error.tmpl = AuditFixLockMsg

\* The external command failed with / without output.
FailedWithOutput(i) ==
  /\ proc[i].st = "exited" /\ proc[i].result.exit = "nonzero"
  /\ proc[i].result.stdout # <<>>
FailedWithoutOutput(i) ==
  /\ proc[i].st = "exited" /\ proc[i].result.exit # "zero"
  /\ Has(proc[i].result, "stdout") => proc[i].result.stdout = <<>>

\* C7: in both audit tools, a command that exits non-zero with non-empty
\* standard output is not an invocation failure: the output goes on to
\* parsing, and only the normalization of what was parsed can still make
\* the call fail when it parses; a command that fails with
\* empty or absent standard output makes the call fail with the
\* invocation-failure error and nothing is parsed.
C7_NonZeroExitWithOutputTolerated ==
  \A i \in Invocations :
    /\ FailedWithOutput(i) =>
         /\ outcome[i].kind = "throw" =>
              \/ outcome[i].error.tmpl = ParseMsgOf(req[i].tool)
              \/ outcome[i].error.name = "TypeError"
         /\ JSONparse(proc[i].result.stdout).ok =>
              /\ Events(i, "JSON.parse") # {}
              /\ outcome[i].kind = "throw" => outcome[i].error.name = "TypeError"
         /\ req[i].tool = "npm_audit" => Events(i, "JSON.parse") # {}
    /\ FailedWithoutOutput(i) =>
         /\ outcome[i].kind = "throw"
         /\ outcome[i].error.tmpl = RunMsgOf(req[i].tool)
         /\ outcome[i].error.path = req[i].args.projectPath
         /\ Events(i, "JSON.parse") = {}

\* npm audit exited non-zero with the report {m} and the call returned.
C7_Witness ==
  \E i \in Invocations :
    /\ req[i].tool = "npm_audit" /\ FailedWithOutput(i)
    /\ proc[i].result.stdout = <<Run("{", 1), Run("m", 1), Run("}", 1)>>
    /\ outcome[i].kind = "return"

\* The output that npm_audit parses, when there is one.
Captured(i) ==
  /\ proc[i].st = "exited"
  /\ proc[i].result.exit = "zero" \/ FailedWithOutput(i)

\* C8: in npm_audit, captured output that is not valid JSON makes the call
\* fail with the parse-failure error, whose message is not that of the
\* invocation-failure error; neither failure produces a result.
C8_ParseFailureDistinct ==
  \A i \in Invocations :
    req[i].tool = "npm_audit" =>
      /\ (Captured(i) /\ ~JSONparse(proc[i].result.stdout).ok) =>
           /\ outcome[i].kind = "throw"
           /\ outcome[i].error.tmpl = AuditParseMsg
           /\ outcome[i].error.tmpl # AuditRunMsg
      /\ FailedWithoutOutput(i) =>
           /\ outcome[i].kind = "throw"
           /\ outcome[i].error.tmpl = AuditRunMsg
           /\ outcome[i].error.tmpl # AuditParseMsg

C8_Witness ==
  \E i \in Invocations :
    /\ req[i].tool = "npm_audit" /\ Captured(i)
    /\ proc[i].result.stdout = <<Run("{", 1), Run("x", 1), Run("}", 1)>>
    /\ outcome[i].kind = "throw" /\ outcome[i].error.tmpl = AuditParseMsg

\* stdout is some text that is not JSON followed by a JSON object.
PreambleThenObject(stdout, braceFree) ==
  \E k \in 0..Len(stdout) :
    /\ ~JSONparse(SubSeq(stdout, 1, k)).ok
    /\ braceFree => \A j \in 1..k : stdout[j].c # "{"
    /\ k < Len(stdout) /\ stdout[k + 1].c = "{"
    /\ JSONparse(SubSeq(stdout, k + 1, Len(stdout))).ok

ObjectAfterPreamble(stdout) ==
  JSONparse(SubSeq(stdout,
                   CHOOSE k \in 1..Len(stdout) :
                     /\ stdout[k].c = "{"
                     /\ JSONparse(SubSeq(stdout, k, Len(stdout))).ok,
                   Len(stdout))).value

\* The call did not fail in the parsing block, and the result it returns, if
\* the normalization after the parsing block does not throw, holds the object.
SimulationParsed(i, braceFree) ==
  PreambleThenObject(proc[i].result.stdout, braceFree) =>
    /\ outcome[i].kind = "throw" => outcome[i].error.tmpl # FixParseMsg
    /\ outcome[i].kind = "throw" =>
         ~NormalizeSimulation(ObjectAfterPreamble(proc[i].result.stdout)).ok
    /\ outcome[i].kind = "return" =>
         \E j \in 1..Len(outcome[i].envelope.content[1].text) :
           /\ outcome[i].envelope.content[1].text[j].k = "rawSimulationOutput"
           /\ outcome[i].envelope.content[1].text[j].v = ObjectAfterPreamble(proc[i].result.stdout)

NoBraceFails(i) ==
  (\A j \in 1..Len(proc[i].result.stdout) : proc[i].result.stdout[j].c # "{") =>
    /\ outcome[i].kind = "throw"
    /\ outcome[i].error.tmpl = FixParseMsg
    /\ outcome[i].error.inner = FixNoBraceMsg
    /\ Events(i, "JSON.parse") = {}

\* C9 as stated: in simulate_npm_audit_fix, every captured output made of
\* non-JSON preamble text followed by a valid JSON object is parsed
\* successfully, and every captured output without a "{" makes the call fail
\* with the malformed-output error.
C9_AnyPreambleParsed ==
  \A i \in Invocations :
    (req[i].tool = "simulate_npm_audit_fix" /\ Captured(i)) =>
      SimulationParsed(i, FALSE) /\ NoBraceFails(i)

\* C9 amended: in simulate_npm_audit_fix, every captured output made of
\* preamble text that contains no "{" followed by a valid JSON object is
\* parsed successfully, to that object, and every captured output without a
\* "{" makes the call fail with the malformed-output error.
C9_BraceFreePreambleParsed ==
  \A i \in Invocations :
    (req[i].tool = "simulate_npm_audit_fix" /\ Captured(i)) =>
      SimulationParsed(i, TRUE) /\ NoBraceFails(i)

\* The output "x" then "{m}" was parsed to the object {m}.
C9_Witness ==
  \E i \in Invocations :
    /\ req[i].tool = "simulate_npm_audit_fix" /\ Captured(i)
    /\ proc[i].result.stdout = <<Run("x", 1), Run("{", 1), Run("m", 1), Run("}", 1)>>
    /\ outcome[i].kind = "return"

\* C10: every error message of simulate_npm_audit_fix for malformed output
\* embeds raw command output only as a fragment of at most the first 500
\* characters, whatever the length of the output.
C10_BoundedRawFragment ==
  \A i \in Invocations :
    (/\ req[i].tool = "simulate_npm_audit_fix"
     /\ outcome[i].kind = "throw" /\ outcome[i].error.tmpl = FixParseMsg) =>
      \A k \in 1..Len(outcome[i].error.raws) :
        /\ StrLen(outcome[i].error.raws[k]) <= FragmentLen
        /\ outcome[i].error.raws[k] = TakeChars(proc[i].result.stdout, FragmentLen)

\* What was applied and has returned or thrown.
Applied(fn) == arg.fn = fn /\ ret # NoCall

\* The normalized action the fix simulation is to give for one element of the
\* actions array: the lower-cased kind or 'unknown', the module name, else
\* the name, else 'unknown', and each other field exactly when the source
\* field has its type.
StringProp(element, key) ==
  element.t = "object" /\ HasProp(element, key) /\ Prop(element, key).t = "string"
FirstResolveOf(element) ==
  IF /\ element.t = "object" /\ HasProp(element, "resolves")
     /\ Prop(element, "resolves").t = "array"
     /\ Prop(element, "resolves").elems # <<>>
  THEN Prop(element, "resolves").elems[1]
  ELSE JSNull
ActionNormalized(element, normalized) ==
  /\ {"action", "name"} \subseteq DOMAIN normalized
  /\ DOMAIN normalized \subseteq {"action", "name", "version", "oldVersion", "isMajor", "path"}
  /\ normalized.action = IF StringProp(element, "action")
                         THEN toLowerCase(Prop(element, "action").s) ELSE "unknown"
  /\ normalized.name = IF StringProp(element, "module") THEN Prop(element, "module").s
                       ELSE IF StringProp(element, "name") THEN Prop(element, "name").s
                       ELSE "unknown"
  /\ Has(normalized, "version") <=> StringProp(element, "target")
  /\ Has(normalized, "version") => normalized.version = Prop(element, "target").s
  /\ Has(normalized, "oldVersion") <=> StringProp(FirstResolveOf(element), "from")
  /\ Has(normalized, "oldVersion") =>
       normalized.oldVersion = Prop(FirstResolveOf(element), "from").s
  /\ Has(normalized, "isMajor") <=>
       (element.t = "object" /\ Prop(element, "isMajor").t = "boolean")
  /\ Has(normalized, "isMajor") => normalized.isMajor = Prop(element, "isMajor").b
  /\ Has(normalized, "path") <=> StringProp(FirstResolveOf(element), "path")
  /\ Has(normalized, "path") => normalized.path = Prop(FirstResolveOf(element), "path").s

\* C11: in simulate_npm_audit_fix, for every parsed output whose actions
\* member is an array, the normalization does not fail whatever the elements
\* are, and the result has one normalized action per element, in order, with
\* the fields the element determines.
C11_EveryElementNormalized ==
  (Applied("NormalizeSimulation") /\ Prop(arg.value, "actions").t = "array") =>
    LET elems == Prop(arg.value, "actions").elems
    IN  /\ ret.ok
        /\ Len(ret.data.actions) = Len(elems)
        /\ \A j \in 1..Len(elems) : ActionNormalized(elems[j], ret.data.actions[j])

\* C11 without the null elements: the statement above for every actions
\* array none of whose elements is null.
C11_NonNullElementsNormalized ==
  (/\ Applied("NormalizeSimulation") /\ Prop(arg.value, "actions").t = "array"
   /\ \A j \in 1..Len(Prop(arg.value, "actions").elems) :
        Prop(arg.value, "actions").elems[j] # JSNull) =>
    C11_EveryElementNormalized


\* The severity summary of a parsed report, and the count it reports for a
\* bucket: 0 for a bucket that is missing or null.
SeveritySummaryOf(report) == OptProp(Prop(report, "metadata"), "vulnerabilities")
BucketCount(report, bucket) ==
  IF Prop(SeveritySummaryOf(report), bucket).t = "number"
  THEN Prop(SeveritySummaryOf(report), bucket).n ELSE 0
RECURSIVE SumOfBuckets(_, _)
SumOfBuckets(report, buckets) ==
  IF buckets = <<>> THEN 0
  ELSE BucketCount(report, Head(buckets)) + SumOfBuckets(report, Tail(buckets))

\* C12: in every result of npm_audit, summary.totalVulnerabilities is the sum
\* of the counts of the buckets info, low, moderate, high and critical of the
\* report's metadata, a missing bucket counting 0 and a missing metadata
\* giving 0.
C12_TotalIsSumOfBuckets ==
  (Applied("NormalizeAudit") /\ ret.ok) =>
    ret.data.summary.totalVulnerabilities = SumOfBuckets(arg.value, Buckets)

\* What the code computes: the sum of every member of the severity summary,
\* whatever its key.
C12_TotalIsSumOfMembers ==
  (Applied("NormalizeAudit") /\ ret.ok) =>
    ret.data.summary.totalVulnerabilities
      = SumOfBuckets(arg.value, Buckets \o <<"total">>)


\* The vulnerabilities map of a parsed report: its members, none when the
\* map is missing or null.
VulnerabilityMapOf(report) ==
  IF Prop(report, "vulnerabilities").t = "object"
  THEN Prop(report, "vulnerabilities").entries ELSE <<>>
EntriesAreObjects(report) ==
  \A j \in 1..Len(VulnerabilityMapOf(report)) : VulnerabilityMapOf(report)[j].v.t = "object"

\* A field of a map entry counts as given when it is there (asStated) or
\* when it is there and not the empty string.
Given(details, field, asStated) ==
  HasProp(details, field) /\ (asStated \/ Prop(details, field) # JSString(""))
VulnerabilityListed(key, details, listed, asStated) ==
  /\ listed.package = key
  /\ listed.version = IF Given(details, "installed", asStated) THEN Prop(details, "installed")
                      ELSE IF Given(details, "version", asStated) THEN Prop(details, "version")
                      ELSE JSString("")
  /\ listed.severity = IF Given(details, "severity", asStated) THEN Prop(details, "severity")
                       ELSE JSString("unknown")
  /\ Has(listed, "advisoryUrl") => Given(details, "url", asStated)
  /\ Has(listed, "advisoryUrl") => listed.advisoryUrl = Prop(details, "url")
VulnerabilitiesListed(asStated) ==
  (Applied("NormalizeAudit") /\ EntriesAreObjects(arg.value)) =>
    LET map == VulnerabilityMapOf(arg.value)
    IN  /\ ret.ok
        /\ Len(ret.data.vulnerabilities) = Len(map)
        /\ \A j \in 1..Len(map) :
             VulnerabilityListed(map[j].k, map[j].v, ret.data.vulnerabilities[j], asStated)
        /\ ret.data.rawAuditReport = arg.value

DigitsOnly(key, from, to) ==
  from <= to /\ \A k \in from..to : key[k] \in {"0", "1", "2", "3", "4", "5", "6", "7", "8", "9"}
MatchesVersionPattern(key) ==
  \E i, j, e \in 1..Len(key) :
    /\ DigitsOnly(key, 1, i - 1) /\ key[i] = "."
    /\ DigitsOnly(key, i + 1, j - 1) /\ key[j] = "."
    /\ DigitsOnly(key, j + 1, e)
    /\ \/ e = Len(key)
       \/ /\ key[e + 1] \in {"-", "."}
          /\ \A k \in (e + 1)..Len(key) : key[k] # "\n"

TimeOf(record) == IF Has(record, "time") THEN record.time ELSE <<>>

\* C14: transformDataForVersions puts a key of the record's time mapping in
\* versions if and only if the key matches the version pattern, with the
\* timestamp the key has in the source; nothing else is in versions, and a
\* record without a time mapping gives an empty versions map.
C14_VersionsAreMatchingKeys ==
  Applied("transformDataForVersions") =>
    LET time == TimeOf(arg.value)
        versions == ret.data.versions
    IN  /\ \A k \in 1..Len(time) :
             MatchesVersionPattern(time[k].k) <=>
               \E j \in 1..Len(versions) : versions[j] = time[k]
        /\ \A j \in 1..Len(versions) : \E k \in 1..Len(time) : versions[j] = time[k]
        /\ \A j, k \in 1..Len(versions) : versions[j].k = versions[k].k => j = k
        /\ ret.data.source = SampleSourceUrl

\* A time mapping with 'c', 1.1.2, 'm' and 2.1.1-c gave the two versions.
C14_Witness ==
  /\ Applied("transformDataForVersions")
  /\ Len(TimeOf(arg.value)) = 4
  /\ ret.data.versions = << [k |-> V112, v |-> "t1"], [k |-> V200 \o <<"-", "c">>, v |-> "t3"] >>


\* The latest version a record declares and the timestamp its time mapping
\* has for a version.  A value counts as given when it is there (asStated)
\* or when it is there and not empty.
LatestGiven(record, asStated) ==
  /\ Has(record, "distTags") /\ Has(record.distTags, "latest")
  /\ asStated \/ record.distTags.latest # <<>>
StampsOf(record, version, asStated) ==
  {TimeOf(record)[k].v : k \in {j \in 1..Len(TimeOf(record)) :
                                  /\ TimeOf(record)[j].k = version
                                  /\ asStated \/ TimeOf(record)[j].v # ""}}
LatestSummarized(asStated) ==
  Applied("transformDataForSummary") =>
    IF ~LatestGiven(arg.value, asStated)
    THEN ret.data.latestVersion = <<"N", "/", "A">> /\ ~Has(ret.data, "publishDateLatest")
    ELSE /\ ret.data.latestVersion = arg.value.distTags.latest
         /\ Has(ret.data, "publishDateLatest") <=>
              StampsOf(arg.value, arg.value.distTags.latest, asStated) # {}
         /\ Has(ret.data, "publishDateLatest") =>
              ret.data.publishDateLatest
                \in StampsOf(arg.value, arg.value.distTags.latest, asStated)

\* C15 as stated: transformDataForSummary gives latestVersion 'N/A' and no
\* publishDateLatest for a record without dist-tags.latest; for a record with
\* dist-tags.latest = v it gives latestVersion v, and publishDateLatest is
\* there exactly when the time mapping has an entry for v, and is that entry.
C15_LatestSummarized ==
  LatestSummarized(TRUE)

\* C15 amended: the same, where a record has dist-tags.latest only if it is
\* not the empty string, and the time mapping has an entry for v only if the
\* entry is not the empty string.
C15_NonEmptyLatestSummarized ==
  LatestSummarized(FALSE)

\* A record with latest 1.1.2 and that version in time was summarized with
\* its timestamp.
C15_Witness ==
  /\ Applied("transformDataForSummary")
  /\ LatestGiven(arg.value, FALSE) /\ arg.value.distTags.latest = V112
  /\ Len(TimeOf(arg.value)) = 2
  /\ ret.data.latestVersion = V112
  /\ Has(ret.data, "publishDateLatest") /\ ret.data.publishDateLatest = "t1"


\* The license of a record: a string, an object with or without a type, null
\* or nothing.  A type counts as given when it is there (asStated) or when it
\* is there and not empty.
LicenseNormalized(asStated) ==
  Applied("transformDataForSummary") =>
    LET record == arg.value
        isString == Has(record, "license") /\ record.license.t = "string"
        hasType == /\ Has(record, "license") /\ record.license.t = "object"
                   /\ Has(record.license, "type")
                   /\ asStated \/ record.license.type # ""
    IN  /\ isString => Has(ret.data, "license") /\ ret.data.license = record.license.v
        /\ hasType => Has(ret.data, "license") /\ ret.data.license = record.license.type
        /\ ~(isString \/ hasType) => ~Has(ret.data, "license")

\* C16 as stated: in transformDataForSummary a string license is returned
\* unchanged, an object license with a type field gives that type, and every
\* other license (missing, null, an object without type) gives no license.
C16_LicenseNormalized ==
  LicenseNormalized(TRUE)

\* C16 amended: the same, where an object license gives its type only if the
\* type is not the empty string, and no license otherwise.
C16_NonEmptyTypeNormalized ==
  LicenseNormalized(FALSE)

\* The license {type: "ISC"} was summarized as "ISC".
C16_Witness ==
  /\ Applied("transformDataForSummary")
  /\ Has(arg.value, "license") /\ arg.value.license = [t |-> "object", type |-> "ISC"]
  /\ Has(ret.data, "license") /\ ret.data.license = "ISC"


\* out is url without a leading git+ and without a trailing .git.
StartsWith(url, pre) == Len(url) >= Len(pre) /\ SubSeq(url, 1, Len(pre)) = pre
EndsWith(url, suf) ==
  Len(url) >= Len(suf) /\ SubSeq(url, Len(url) - Len(suf) + 1, Len(url)) = suf
Stripped(url, out) ==
  \E pre \in {<<>>, <<"g", "i", "t", "+">>}, suf \in {<<>>, <<".", "g", "i", "t">>} :
    /\ url = pre \o out \o suf
    /\ pre = <<>> <=> ~StartsWith(url, <<"g", "i", "t", "+">>)
    /\ suf = <<>> <=> ~EndsWith(url, <<".", "g", "i", "t">>)

\* A repository counts as having a URL when the field is there (asStated) or
\* when it is there and not empty.
RepositoryNormalized(asStated) ==
  Applied("transformDataForSummary") =>
    LET record == arg.value
        hasUrl == /\ Has(record, "repository") /\ Has(record.repository, "url")
                  /\ asStated \/ record.repository.url # <<>>
    IN  /\ hasUrl => /\ Has(ret.data, "repository")
                     /\ Stripped(record.repository.url, ret.data.repository)
        /\ ~hasUrl => ~Has(ret.data, "repository")

\* C17 as stated: in transformDataForSummary the repository of a record that
\* has a repository with a URL is the URL without a leading 'git+' and
\* without a trailing '.git', and a record without repository has none.
C17_RepositoryNormalized ==
  RepositoryNormalized(TRUE)

\* C17 amended: the same, for a repository whose URL is not the empty
\* string; a repository with an empty URL or without one gives none.
C17_NonEmptyUrlNormalized ==
  RepositoryNormalized(FALSE)

\* The URL git+h.git was summarized as h.
C17_Witness ==
  /\ Applied("transformDataForSummary")
  /\ Has(arg.value, "repository") /\ Has(arg.value.repository, "url")
  /\ arg.value.repository.url = <<"g", "i", "t", "+", "h", ".", "g", "i", "t">>
  /\ Has(ret.data, "repository") /\ ret.data.repository = <<"h">>


\* A list of the record, empty when the record has none.
ListOf(record, field) == IF Has(record, field) THEN record[field] ELSE <<>>

WellFormed(record) ==
  \A k \in 1..Len(ListOf(record, "maintainers")) :
    {"name", "email"} \subseteq DOMAIN record.maintainers[k]
Transforms ==
  {"transformDataForSummary", "transformDataForVersions", "transformDataForDetails"}

\* C19: transformDataForSummary, transformDataForVersions and
\* transformDataForDetails return, and do not throw, for every record whose
\* optional parts are, in any combination, missing or of their declared shape.
C19_TransformsTotal ==
  (arg.fn \in Transforms /\ ret # NoCall /\ WellFormed(arg.value)) => ret.ok

\* The details of a record that has none of the optional parts were returned.
C19_Witness ==
  /\ Applied("transformDataForDetails")
  /\ arg.value = [name |-> "express"]
  /\ ret.ok /\ ret.data.latestVersion = <<"N", "/", "A">>

\* The answer of the upstream to a GET, if the GET has settled.
Response(f) == IF f.st = "settled" THEN <<f.out>> ELSE <<>>

SameResponses ==
  /\ Response(reg[1]) = Response(reg[2])
  /\ \A p \in PeriodSet : Response(fetches[1][p]) = Response(fetches[2][p])

TextOf(i) == outcome[i].envelope.content[1].text

\* C20: when one of the four registry-read tools has been called twice with
\* the same arguments and the upstream answered both calls alike, a call that
\* returned a result is matched by the other call returning the same JSON
\* text, the order of its keys included.
C20_SameCallSameText ==
  (/\ Ended(1) /\ Ended(2)
   /\ req[1] = req[2]
   /\ req[1].tool \in RegistryTools \cup {"get_npm_package_downloads"}
   /\ SameResponses)
    => /\ outcome[1].kind = outcome[2].kind
       /\ outcome[1].kind = "return" => TextOf(1) = TextOf(2)

\* Two downloads calls for every period whose fetches arrived in different
\* orders, each returning at least two counts.
C20_Witness ==
  /\ pc[1] = "returned" /\ pc[2] = "returned"
  /\ req[1] = req[2]
  /\ req[1].tool = "get_npm_package_downloads"
  /\ SameResponses
  /\ locals[1].requestedPeriod = <<>>
  /\ \E p \in PeriodSet : fetches[1][p].at # fetches[2][p].at
  /\ Cardinality({p \in PeriodSet : IsCount(fetches[1], p)}) >= 2
  /\ TextOf(1) = TextOf(2)

\* The GETs an invocation issued for a URL: the registry record (period "")
\* or one period of the downloads endpoint.
GetsOf(i, base, period) ==
  {k \in Events(i, "GET") : log[i][k].base = base /\ log[i][k].period = period}

\* The failures of an invocation other than a failed download fetch: the
\* registry fetch failed, the lock file is missing, the command could not be
\* run, or its output could not be parsed.
RegistryFetchFailed(i) == reg[i].st = "settled" /\ reg[i].out.k # "ok"
LockFileMissing(i) == \E k \in Events(i, "existsSync") : ~log[i][k].result
CommandFailed(i) == proc[i].st = "exited" /\ ~CaptureStdout(proc[i].result).ok
OutputUnparsed(i) ==
  /\ proc[i].st = "exited" /\ CaptureStdout(proc[i].result).ok
  /\ LET raw == CaptureStdout(proc[i].result).raw
     IN  IF req[i].tool = "npm_audit"
         THEN ~ParseAuditOutput(raw, locals[i].projectPath).ok
         ELSE ~ParseSimulationOutput(raw, locals[i].projectPath).ok

\* C21: in one invocation the registry record is requested at most once,
\* each download period at most once, and the external command is started at
\* most once, whether the call succeeds or fails; and every failure other
\* than a failed download fetch ends the invocation with an error thrown to
\* the caller.
C21_NoRetryFailureReported ==
  \A i \in Invocations :
    /\ Cardinality(GetsOf(i, NPM_REGISTRY_BASE_URL, "")) <= 1
    /\ \A p \in PeriodSet : Cardinality(GetsOf(i, NPM_DOWNLOADS_API_BASE_URL, p)) <= 1
    /\ Cardinality(Events(i, "execSync")) <= 1
    /\ Cardinality(Events(i, "GET")) =
         Cardinality({p \in PeriodSet : fetches[i][p].st # "none"})
           + (IF reg[i].st # "none" THEN 1 ELSE 0)
    /\ (RegistryFetchFailed(i) \/ LockFileMissing(i) \/ CommandFailed(i) \/ OutputUnparsed(i))
         => outcome[i].kind = "throw"

\* A registry fetch that got no response ended its invocation with an error
\* after a single GET.
C21_Witness ==
  \E i \in Invocations :
    /\ RegistryFetchFailed(i) /\ reg[i].out.k = "request"
    /\ pc[i] = "thrown"
    /\ Cardinality(GetsOf(i, NPM_REGISTRY_BASE_URL, "")) = 1
    /\ Cardinality(Events(i, "GET")) = 1

\* The arguments of a call do not have the shape the tool declares:
\* packageName or projectPath missing or empty, or, for the downloads tool, a
\* period that is none of the three.
ViolatesShape(tool, args) ==
  IF tool \in AuditTools
  THEN ~Has(args, "projectPath") \/ args.projectPath = ""
  ELSE \/ ~Has(args, "packageName") \/ args.packageName = <<>>
       \/ /\ tool = "get_npm_package_downloads"
          /\ Has(args, "period") /\ args.period \notin PeriodSet

InvalidArgumentsMsgs ==
  {"Invalid arguments for tool ${toolName}. Details: ${errorDetails}",
   "Invalid arguments for tool ${toolName}: ${parseResult.error.flatten().fieldErrors}"}

\* A call of one of the given tools whose arguments violate the tool's shape
\* has thrown an invalid-arguments error that names the tool, and has done
\* nothing else.
InvalidArgumentsRejected(tools) ==
  \A i \in Invocations :
    (req[i].tool \in tools /\ ViolatesShape(req[i].tool, req[i].args)) =>
      /\ outcome[i].kind = "throw"
      /\ outcome[i].error.tmpl \in InvalidArgumentsMsgs
      /\ outcome[i].error.tool = req[i].tool
      /\ log[i] = <<>>
      /\ reg[i].st = "none"
      /\ \A p \in PeriodSet : fetches[i][p].st = "none"
      /\ proc[i].st = "none"

\* C22: a call of a tool whose arguments violate the tool's argument shape
\* fails with an invalid-arguments error, and the invocation performs no HTTP
\* request, no lock-file check and no subprocess invocation.  Stated for the
\* four tools that both handlers implement.
C22_InvalidArgumentsRejected ==
  InvalidArgumentsRejected(RegistryTools \cup {"get_npm_package_downloads"})

\* C22, for the six tools of the handler with per-tool validation.
C22_InvalidArgumentsRejectedPerTool == InvalidArgumentsRejected(ListedTools)

\* The characters of a percent-encoded path segment: unreserved characters
\* and escapes.
SegmentChars == {"x", "%"} \cup HexDigits

\* The package field of the JSON text returned by a downloads call.
PackageOf(i) == outcome[i].envelope.content[1].text[2].v

FirstKeyOf(tool) ==
  CASE tool = "get_npm_package_versions" -> "versions"
    [] tool = "get_npm_package_downloads" -> "downloads"
    [] tool = "npm_audit" -> "auditRunDate"
    [] tool = "simulate_npm_audit_fix" -> "simulationRunDate"
    [] OTHER -> "name"

\* Something failed in the invocation: its arguments, a registry fetch, the
\* lock-file check, the command or the parsing of its output.
CallFailed(i) ==
  \/ req[i].tool \notin ListedTools
  \/ ViolatesShape(req[i].tool, req[i].args)
  \/ RegistryFetchFailed(i) \/ LockFileMissing(i) \/ CommandFailed(i) \/ OutputUnparsed(i)

\* C24: a tool call that has ended has either returned the envelope
\* {content: [{type: 'text', text: <JSON of the tool's result>}], isError:
\* false} or thrown an error, and a call that has not ended has done neither;
\* no envelope is returned for a failed call, and isError is never true.
C24_EnvelopeOrThrow ==
  \A i \in Invocations :
    /\ outcome[i].kind \in {"none", "return", "throw"}
    /\ outcome[i].kind = "none" <=> ~Ended(i)
    /\ outcome[i].kind = "throw" =>
         /\ pc[i] = "thrown"
         /\ DOMAIN outcome[i] = {"kind", "error"}
    /\ outcome[i].kind = "return" =>
         /\ pc[i] = "returned"
         /\ DOMAIN outcome[i] = {"kind", "envelope"}
         /\ DOMAIN outcome[i].envelope = {"content", "isError"}
         /\ outcome[i].envelope.isError = FALSE
         /\ Len(outcome[i].envelope.content) = 1
         /\ DOMAIN outcome[i].envelope.content[1] = {"type", "text"}
         /\ outcome[i].envelope.content[1].type = "text"
         /\ TextOf(i)[1].k = FirstKeyOf(req[i].tool)
         /\ ~CallFailed(i)

\* A fix simulation returned its envelope, the raw output as its last key.
C24_Witness ==
  \E i \in Invocations :
    /\ pc[i] = "returned"
    /\ req[i].tool = "simulate_npm_audit_fix"
    /\ outcome[i].envelope.isError = FALSE
    /\ TextOf(i)[Len(TextOf(i))].k = "rawSimulationOutput"

\* What a registry tool makes of its own arguments and of the answer to its
\* own GET.
RegistryResultOf(tool, args, out) ==
  IF ~PackageNameArgsSchema(args).success THEN Throw(handleZodError(tool))
  ELSE LET encoded == encodePackageName(args.packageName)
           res == fetchPackageData(encoded.val, out)
           sourceUrl == <<NPM_REGISTRY_BASE_URL, encoded.val>>
       IN  IF ~encoded.ok THEN Throw(HandlerCatch(URIError))
           ELSE IF ~res.ok THEN Throw(HandlerCatch(res.error))
           ELSE IF tool = "get_npm_package_summary"
           THEN Return(transformDataForSummary(res.data, sourceUrl), SummaryKeys)
           ELSE IF tool = "get_npm_package_versions"
           THEN Return(transformDataForVersions(res.data, sourceUrl), VersionsKeys)
           ELSE IF MapMaintainersThrows(res.data)
           THEN Throw(MkError("TypeError", "Cannot read properties of null"))
           ELSE Return(transformDataForDetails(res.data, sourceUrl), DetailsKeys)

\* What the downloads tool makes of its own arguments and of the answers to
\* its own GETs.
DownloadsResultOf(args, fs) ==
  IF ~PackageDownloadsArgsSchema(args).success
  THEN Throw(handleZodError("get_npm_package_downloads"))
  ELSE LET data == PackageDownloadsArgsSchema(args).data
           encoded == encodePackageName(data.packageName)
           res == fetchPackageDownloads(encoded.val, RequestedPeriod(data), fs)
       IN  IF ~encoded.ok THEN Throw(HandlerCatch(URIError))
           ELSE IF res.ok THEN Return(res.data, DownloadsKeys)
           ELSE Throw(HandlerCatch(res.error))

\* What an audit tool makes of its own arguments, of its own lock-file check
\* and of the exit of its own command.
AuditResultOf(tool, args, checks, p) ==
  IF ~Has(args, "projectPath") \/ args.projectPath = "" THEN Throw(handleZodError(tool))
  ELSE IF \E k \in 1..Len(checks) : checks[k].ev = "existsSync" /\ ~checks[k].result
  THEN Throw([MkError("Error", IF tool = "npm_audit" THEN AuditLockMsg ELSE AuditFixLockMsg)
                EXCEPT !.path = args.projectPath])
  ELSE LET captured == CaptureStdout(p.result)
           parsed == IF tool = "npm_audit" THEN ParseAuditOutput(captured.raw, args.projectPath)
                     ELSE ParseSimulationOutput(captured.raw, args.projectPath)
           normal == IF tool = "npm_audit" THEN NormalizeAudit(parsed.json)
                     ELSE NormalizeSimulation(parsed.json)
       IN  IF ~captured.ok
           THEN Throw([MkError("Error", IF tool = "npm_audit" THEN AuditRunMsg ELSE FixRunMsg)
                         EXCEPT !.path = args.projectPath])
           ELSE IF ~parsed.ok THEN Throw(parsed.error)
           ELSE IF ~normal.ok THEN Throw(HandlerCatch(normal.error))
           ELSE Return(normal.data, IF tool = "npm_audit" THEN AuditKeys ELSE SimulationKeys)

\* The outcome of an ended invocation as a function of what is its own: its
\* request, the answers to its GETs, its lock-file check and its command.
OwnResult(i) ==
  IF req[i].tool \in RegistryTools
  THEN RegistryResultOf(req[i].tool, req[i].args, reg[i].out)
  ELSE IF req[i].tool = "get_npm_package_downloads"
  THEN DownloadsResultOf(req[i].args, fetches[i])
  ELSE IF req[i].tool \in AuditTools
  THEN AuditResultOf(req[i].tool, req[i].args, log[i], proc[i])
  ELSE Throw([MkError("Error", NotFoundToolMsg) EXCEPT !.tool = req[i].tool])

\* C25: with several invocations in flight at once, under every interleaving
\* of their steps, the result or failure of each is a function of its own
\* arguments and of the responses to its own outbound calls; nothing written
\* by another invocation enters it.
C25_OwnInputsOnly ==
  \A i \in Invocations : Ended(i) => outcome[i] = OwnResult(i)

\* Two downloads calls overlapped with opposite answers: the second returned
\* last-day alone, its last-week fetch having failed, while the first, whose
\* last-day fetch failed and whose last-week fetch gave a count, still waits.
C25_Witness ==
  /\ pc[1] = "awaitDownloads" /\ pc[2] = "returned"
  /\ req[1] = req[2]
  /\ req[2].tool = "get_npm_package_downloads"
  /\ locals[2].requestedPeriod = <<>>
  /\ FetchFailed(1, "last-day") /\ SucceededWithCount(1, "last-week")
  /\ SucceededWithCount(2, "last-day") /\ FetchFailed(2, "last-week")
  /\ FetchFailed(2, "last-month")
  /\ KeysOf(DownloadsOf(2)) = {"last-day"}

\* What an invocation that has not ended is waiting for: the answer to its
\* registry GET, its download fetches, or the import and its command.
WaitsOnOwnCall(i) ==
  /\ pc[i] = "awaitRegistry" => reg[i].st = "pending"
  /\ pc[i] = "awaitDownloads" =>
       \A p \in Requested(i) : fetches[i][p].st \in {"pending", "settled"}
  /\ pc[i] = "awaitImport" => proc[i].st = "none"
  /\ pc[i] \in {"idle", "awaitRegistry", "awaitDownloads", "awaitImport", "returned", "thrown"}

\* C26: provided every HTTP request that is issued eventually settles and
\* every command that is started eventually exits, every invocation that has
\* started eventually ends, by returning or by throwing; until then it waits
\* for its own request, fetches or command and for nothing else.
C26_EveryInvocationEnds ==
  \A i \in Invocations :
    /\ (pc[i] # "idle") ~> Ended(i)
    /\ [](WaitsOnOwnCall(i))

\* An invocation has ended after waiting for three download fetches while the
\* other still waits for its command.
C26_Witness ==
  \E i, j \in Invocations :
    /\ pc[i] = "returned" /\ DownloadsCall(i)
    /\ Cardinality(Events(i, "GET")) = 3
    /\ pc[j] = "awaitImport"

\* Nothing of invocation j changes in a step.
Untouched(j) ==
  /\ pc'[j] = pc[j] /\ req'[j] = req[j] /\ locals'[j] = locals[j]
  /\ log'[j] = log[j] /\ reg'[j] = reg[j] /\ fetches'[j] = fetches[j]
  /\ proc'[j] = proc[j] /\ outcome'[j] = outcome[j]

\* The command of invocation i starts and exits within one step, which ends
\* the invocation.
CommandRunsInStep(i) ==
  /\ proc[i].st = "none" /\ proc'[i].st = "exited"
  /\ pc[i] = "awaitImport" /\ pc'[i] \in {"returned", "thrown"}
  /\ Len(log'[i]) > Len(log[i])
  /\ log'[i][Len(log[i]) + 1].ev = "execSync"

\* C27: the external command of an npm_audit or simulate_npm_audit_fix
\* invocation starts and exits within a single step of that invocation, and
\* in that step no other invocation changes: no handler starts and no
\* settlement is processed between the start of the command and its exit.
C27_CommandBlocksOthers ==
  [][\A i \in Invocations :
       /\ proc'[i] # proc[i] =>
            /\ CommandRunsInStep(i)
            /\ \A j \in Invocations \ {i} : Untouched(j)
       /\ proc[i].st # "none" =>
            /\ proc[i].st = "exited"
            /\ req[i].tool \in AuditTools]_vars

\* The command of one invocation has exited while the other is in flight,
\* one of its download fetches settled and another pending.
C27_Witness ==
  \E i, j \in Invocations :
    /\ proc[i].st = "exited" /\ req[i].tool = "npm_audit" /\ pc[i] = "returned"
    /\ pc[j] = "awaitDownloads"
    /\ fetches[j]["last-day"].st = "settled"
    /\ fetches[j]["last-week"].st = "pending"

\* The keys of a mapping, in their order.
KeySeqOf(mapping) == [j \in 1..Len(mapping) |-> mapping[j].k]

\* C28: the keys of the downloads mapping of a returned downloads call are
\* in the order last-day, last-week, last-month, restricted to the periods
\* present, whatever the order in which the fetches settled.
C28_KeysInPeriodOrder ==
  \A i \in Invocations :
    (DownloadsCall(i) /\ pc[i] = "returned") =>
      KeySeqOf(DownloadsOf(i)) =
        SelectSeq(Periods, LAMBDA p : p \in KeysOf(DownloadsOf(i)))

\* The three fetches settled last-month first and last-day last, each with a
\* count, and the result lists last-day, last-week, last-month.
C28_Witness ==
  \E i \in Invocations :
    /\ DownloadsCall(i) /\ pc[i] = "returned"
    /\ \A p \in PeriodSet : SucceededWithCount(i, p)
    /\ fetches[i]["last-month"].at = 1
    /\ fetches[i]["last-week"].at = 2
    /\ fetches[i]["last-day"].at = 3
    /\ KeySeqOf(DownloadsOf(i)) = Periods

\* The fetch of period p was answered, but with no count: null or nothing.
AnsweredWithoutCount(i, p) ==
  /\ fetches[i][p].st = "settled"
  /\ fetches[i][p].out.k = "ok"
  /\ fetches[i][p].out.downloads.t \in {"null", "undefined"}

\* C29: in the result of a downloads call, a requested period whose fetch
\* succeeded with the count 0 is present with the value 0, and a requested
\* period is absent only when its fetch failed or was answered without a
\* count.
C29_ZeroCountKept ==
  \A i \in Invocations :
    (DownloadsCall(i) /\ pc[i] = "returned") =>
      \A p \in Requested(i) :
        /\ (SucceededWithCount(i, p) /\ fetches[i][p].out.downloads.n = 0) =>
             \E j \in 1..Len(DownloadsOf(i)) : DownloadsOf(i)[j] = [k |-> p, v |-> 0]
        /\ p \notin KeysOf(DownloadsOf(i)) =>
             FetchFailed(i, p) \/ AnsweredWithoutCount(i, p)

\* A call that named last-week, whose fetch counted zero, returned the
\* mapping with last-week alone, valued 0.
C29_Witness ==
  \E i \in Invocations :
    /\ DownloadsCall(i) /\ pc[i] = "returned"
    /\ locals[i].requestedPeriod = <<"last-week">>
    /\ fetches[i]["last-week"].out = [k |-> "ok", downloads |-> JSNumber(0)]
    /\ DownloadsOf(i) = <<[k |-> "last-week", v |-> 0]>>

\* The first outbound event of the implementation of each tool.
FirstEventOf(tool) ==
  IF tool \in AuditTools THEN "existsSync" ELSE "GET"
FirstBaseOf(tool) ==
  IF tool = "get_npm_package_downloads" THEN NPM_DOWNLOADS_API_BASE_URL
  ELSE NPM_REGISTRY_BASE_URL

NotFound(i) ==
  /\ outcome[i].kind = "throw"
  /\ outcome[i].error.tmpl = "Tool '${toolName}' not found or not implemented."

============================================================================
